---- MODULE Spec2Model ----
(***************************************************************************)
(* Synchronisation engine of jellyfin-auto-groupings: run_sync and its     *)
(* helpers (sync.py), the scheduler job handlers (scheduler.py) and the    *)
(* API handlers that trigger a run (routes.py).                            *)
(*                                                                         *)
(* Strings that the code compares, lower-cases or slices are sequences of  *)
(* one-character strings; paths are sequences of path components.          *)
(***************************************************************************)
EXTENDS Integers, Sequences, FiniteSets, TLC

\* ---------------------------------------------------------------- bounds
NumThreads == 2
MaxGroups == 2
MaxRuns == 2
MaxMonth == 2
MaxDay == 2
MaxRules == 3
MaxWords == 3
MaxIds == 3

\* ------------------------------------------------------- generic helpers
Max(a, b) == IF a >= b THEN a ELSE b

Range(s) == {s[i] : i \in DOMAIN s}

\* dict.get(k): the value, or the empty sequence for a missing key (the
\* code only tests such values for truthiness, and "" is falsy like None)
Get(f, k) == IF k \in DOMAIN f THEN f[k] ELSE <<>>

HasKey(f, k) == k \in DOMAIN f

\* code point order of the characters that occur in the modelled strings
CharOrd(c) ==
  CASE c = " - " -> 32 [] c = "-" -> 45
    [] c = "0" -> 48 [] c = "1" -> 49 [] c = "2" -> 50 [] c = "3" -> 51
    [] c = "4" -> 52 [] c = "5" -> 53 [] c = "6" -> 54 [] c = "7" -> 55
    [] c = "8" -> 56 [] c = "9" -> 57
    [] c = "T" -> 84 [] c = "a" -> 97 [] c = "t" -> 116

\* str.lower() on one character
LowerChar(c) == IF c = "T" THEN "t" ELSE c

\* str.lower()
Lower(s) == [i \in DOMAIN s |-> LowerChar(s[i])]

\* str.startswith(p)
StartsWith(s, p) == Len(s) >= Len(p) /\ SubSeq(s, 1, Len(p)) = p

\* Python's str < str: lexicographic by code point, a proper prefix is smaller
RECURSIVE StrLt(_, _)
StrLt(a, b) ==
  IF b = <<>> THEN FALSE
  ELSE IF a = <<>> THEN TRUE
  ELSE IF CharOrd(Head(a)) # CharOrd(Head(b))
       THEN CharOrd(Head(a)) < CharOrd(Head(b))
       ELSE StrLt(Tail(a), Tail(b))

StrLe(a, b) == a = b \/ StrLt(a, b)

DigitChar(d) ==
  CASE d = 0 -> "0" [] d = 1 -> "1" [] d = 2 -> "2" [] d = 3 -> "3"
    [] d = 4 -> "4" [] d = 5 -> "5" [] d = 6 -> "6" [] d = 7 -> "7"
    [] d = 8 -> "8" [] d = 9 -> "9"

\* str(n) for n >= 0
RECURSIVE IntStr(_)
IntStr(n) == IF n < 10 THEN <<DigitChar(n)>>
             ELSE Append(IntStr(n \div 10), DigitChar(n % 10))

\* the characters of s as one word
RECURSIVE Concat(_)
Concat(s) == IF s = <<>> THEN "" ELSE Head(s) \o Concat(Tail(s))

\* str.zfill(width)
RECURSIVE Zfill(_, _)
Zfill(s, width) == IF Len(s) >= width THEN s ELSE Zfill(<<"0">> \o s, width)

\* ------------------------------------------------------- seasonal window
\* a Python value that is either a str or not a str (None, a number)
PyStr(s) == [isStr |-> TRUE, s |-> s]
PyNone == [isStr |-> FALSE]

\* datetime.strftime("%m-%d")
StrfMonthDay(date) ==
  Zfill(IntStr(date.month), 2) \o <<"-">> \o Zfill(IntStr(date.day), 2)

\* the end date counts as in season: a slip of <= for <
IsInSeasonEndInclusive(start_str, end_str, now) ==
  IF ~start_str.isStr \/ ~end_str.isStr THEN TRUE
  ELSE LET current_md == StrfMonthDay(now)
           s == start_str.s
           e == end_str.s
       IN IF StrLe(s, e)
          THEN StrLe(s, current_md) /\ StrLe(current_md, e)
          ELSE StrLe(s, current_md) \/ StrLe(current_md, e)

\* sync._is_in_season; now is datetime.now()
IsInSeason(start_str, end_str, now) ==
  IF ~start_str.isStr \/ ~end_str.isStr THEN TRUE
  ELSE LET current_md == StrfMonthDay(now)
           s == start_str.s
           e == end_str.s
       IN IF StrLe(s, e)
          THEN StrLe(s, current_md) /\ StrLt(current_md, e)
          ELSE StrLe(s, current_md) \/ StrLt(current_md, e)

\* ----------------------------------------------------------- the library
\* Catalog items as Jellyfin returns them for the full-library query
\* (Fields=Path,ProviderIds,Genres,...,ProductionYear,CommunityRating,UserData);
\* a key that Jellyfin leaves out is absent from the record.
ItemA == [Id |-> "A", Path |-> <<"jf", "m1", "x.mkv">>,
          ProviderIds |-> [Imdb |-> <<"T", "t", "1">>, Tmdb |-> <<"1">>],
          Genres |-> {"action"}, ProductionYear |-> 2, CommunityRating |-> 5,
          Played |-> TRUE]
ItemB == [Id |-> "B", Path |-> <<"jf", "m2", "x.mkv">>,
          ProviderIds |-> [Imdb |-> <<"t", "t", "2">>],
          Genres |-> {"action", "scifi"}, ProductionYear |-> 1,
          CommunityRating |-> 9, Played |-> FALSE]
ItemC == [Id |-> "C", Path |-> <<"jf", "m1", "gone.mkv">>,
          ProviderIds |-> [Imdb |-> <<"t", "t", "3">>, Tmdb |-> <<"3">>],
          Genres |-> {"scifi"}, Played |-> FALSE]
ItemD == [Id |-> "D", Path |-> <<>>,
          ProviderIds |-> [Tmdb |-> <<"4">>],
          Genres |-> {}, ProductionYear |-> 2, Played |-> FALSE]
ItemE == [Id |-> "E", Path |-> <<"other", "y.mkv">>,
          ProviderIds |-> [Imdb |-> <<"t", "t", "1">>, Tmdb |-> <<"5">>],
          Genres |-> {"action"}, ProductionYear |-> 2, CommunityRating |-> 7,
          Played |-> FALSE]

\* the library as it is upstream, one entry per successive state of the server
Libraries == << <<ItemA, ItemB, ItemC, ItemD>>, <<ItemB, ItemE, ItemA>> >>

\* media files present on the host (os.path.exists of the translated path)
MediaFiles == { <<"host", "m1", "x.mkv">>, <<"host", "m2", "x.mkv">>,
                <<"other", "y.mkv">> }

\* jellyfin.SORT_MAP: sort_order -> (primary field, descending)
SORT_MAP ==
  [CommunityRating |-> [key |-> "CommunityRating", reverse |-> TRUE],
   ProductionYear |-> [key |-> "ProductionYear", reverse |-> TRUE],
   SortName |-> [key |-> "SortName", reverse |-> FALSE],
   DateCreated |-> [key |-> "DateCreated", reverse |-> TRUE],
   Random |-> [key |-> "Random", reverse |-> FALSE]]

LIST_SOURCES == {"imdb_list", "trakt_list", "tmdb_list", "anilist_list",
                 "mal_list", "letterboxd_list", "recommendations"}

LIST_ORDER_VALUES == {"imdb_list_order", "trakt_list_order", "tmdb_list_order",
                      "anilist_list_order", "mal_list_order",
                      "letterboxd_list_order", "recommendations_list_order"}

\* ---------------------------------------------------------- path handling
\* sync._translate_path on component sequences: commonpath([path, root]) =
\* root is "root is a component-wise prefix of path"
TranslatePath(jellyfin_path, jellyfin_root, host_root) ==
  IF jellyfin_root # <<>> /\ host_root # <<>>
     /\ StartsWith(jellyfin_path, jellyfin_root)
  THEN host_root \o SubSeq(jellyfin_path, Len(jellyfin_root) + 1, Len(jellyfin_path))
  ELSE jellyfin_path

\* os.path.basename
Basename(path) == path[Len(path)]

\* the name of the link for the item at position idx (sync.py 1073-1075)
LinkName(idx, width, host_path, use_prefix) ==
  IF use_prefix
  THEN Zfill(IntStr(idx), width) \o <<" - ", Basename(host_path)>>
  ELSE <<Basename(host_path)>>

\* PrefixWidth, but the width is four whatever the item count
PrefixWidthFixed(n) == 4

\* width of the sequence number (sync.py 1052)
PrefixWidth(n) == Max(Len(IntStr(n)), 4)

\* ------------------------------------------------------ provider matching
\* the watch-state post-filter
WatchFilter(items, watch_state) ==
  CASE watch_state = "unwatched" -> SelectSeq(items, LAMBDA i : ~i.Played)
    [] watch_state = "watched" -> SelectSeq(items, LAMBDA i : i.Played)
    [] OTHER -> items

ProviderKeyOf(item, provider_key, case_insensitive) ==
  LET val == Get(item.ProviderIds, provider_key)
  IN IF case_insensitive THEN Lower(val) ELSE val

\* the dict jf_by_provider as the sequence of its values in insertion order:
\* a key keeps the position of its first insertion and the value of its last
RECURSIVE ProviderIndex(_, _, _)
ProviderIndex(raw_items, provider_key, ci) ==
  IF raw_items = <<>> THEN <<>>
  ELSE LET n == Len(raw_items)
           last == raw_items[n]
           rest == ProviderIndex(SubSeq(raw_items, 1, n - 1), provider_key, ci)
           k == ProviderKeyOf(last, provider_key, ci)
       IN IF k = <<>> THEN rest
          ELSE IF \E j \in DOMAIN rest : ProviderKeyOf(rest[j], provider_key, ci) = k
               THEN [j \in DOMAIN rest |->
                       IF ProviderKeyOf(rest[j], provider_key, ci) = k
                       THEN last ELSE rest[j]]
               ELSE Append(rest, last)

\* jf_by_provider.get(key): a one-element sequence, or empty
IndexLookup(index, provider_key, ci, key) ==
  SelectSeq(index, LAMBDA i : ProviderKeyOf(i, provider_key, ci) = key)

\* MatchInListOrder, but the matches come in the order of the index
MatchInIndexOrder(external_ids, index, provider_key, ci) ==
  SelectSeq(index,
    LAMBDA i : ProviderKeyOf(i, provider_key, ci)
                 \in {IF ci THEN Lower(e) ELSE e : e \in Range(external_ids)})

RECURSIVE MatchInListOrder(_, _, _, _)
MatchInListOrder(external_ids, index, provider_key, ci) ==
  IF external_ids = <<>> THEN <<>>
  ELSE LET eid == Head(external_ids)
           key == IF ci THEN Lower(eid) ELSE eid
       IN IndexLookup(index, provider_key, ci, key)
          \o MatchInListOrder(Tail(external_ids), index, provider_key, ci)

\* sync._match_jellyfin_items_by_provider, after the library fetch
MatchByProvider(external_ids, provider_key, list_order_key, sort_order, raw_items, watch_state) ==
  LET ci == provider_key = "Imdb"
      index == ProviderIndex(raw_items, provider_key, ci)
      matched_ids == {IF ci THEN Lower(e) ELSE e : e \in Range(external_ids)}
      items == IF sort_order = list_order_key
               THEN MatchInListOrder(external_ids, index, provider_key, ci)
               ELSE SelectSeq(index,
                      LAMBDA i : ProviderKeyOf(i, provider_key, ci) \in matched_ids)
  IN WatchFilter(items, watch_state)

LetterboxdLookup(raw_items, eid) ==
  IF StartsWith(eid, <<"t", "t">>)
  THEN IndexLookup(ProviderIndex(raw_items, "Imdb", TRUE), "Imdb", TRUE, Lower(eid))
  ELSE IndexLookup(ProviderIndex(raw_items, "Tmdb", FALSE), "Tmdb", FALSE, eid)

RECURSIVE LetterboxdWalk(_, _, _, _)
LetterboxdWalk(external_ids, raw_items, dedup, seen_jf_ids) ==
  IF external_ids = <<>> THEN <<>>
  ELSE LET match == LetterboxdLookup(raw_items, Head(external_ids))
           take == match # <<>> /\ (~dedup \/ match[1].Id \notin seen_jf_ids)
       IN (IF take THEN match ELSE <<>>)
          \o LetterboxdWalk(Tail(external_ids), raw_items, dedup,
                            IF take THEN seen_jf_ids \cup {match[1].Id}
                            ELSE seen_jf_ids)

\* sync._fetch_items_for_letterboxd_group, after the library fetch
MatchLetterboxd(external_ids, sort_order, raw_items, watch_state) ==
  WatchFilter(LetterboxdWalk(external_ids, raw_items,
                             sort_order # "letterboxd_list_order", {}),
              watch_state)

\* ------------------------------------------------------- rule evaluation
\* str(x).strip().lower() on the metadata words of the model
Normalize(w) ==
  CASE w = "Action" -> "action" [] w = " scifi " -> "scifi" [] OTHER -> w

\* sync._match_condition; the model's items carry genres and years
MatchCondition(item, r_type, r_val) ==
  IF r_type = "" \/ r_val = "" THEN FALSE
  ELSE CASE r_type = "genre" ->
              \E g \in Get(item, "Genres") : r_val = Normalize(g)
         [] r_type = "year" ->
              HasKey(item, "ProductionYear")
              /\ Concat(IntStr(item.ProductionYear)) = r_val
         [] OTHER -> FALSE

EndsWithNot(op) == op \in {"NOT", "AND NOT", "OR NOT"}

\* EvalFold, but AND binds tighter than a preceding OR
RECURSIVE EvalFoldWithPrecedence(_, _, _)
EvalFoldWithPrecedence(item, rules, result) ==
  IF rules = <<>> THEN result
  ELSE LET rule == Head(rules)
           op == rule.operator
           matched == MatchCondition(item, rule.type, rule.value)
       IN IF op = "OR" /\ Len(rules) > 1 /\ rules[2].operator = "AND"
          THEN EvalFoldWithPrecedence(item, SubSeq(rules, 3, Len(rules)),
                 result \/ (matched /\ MatchCondition(item, rules[2].type,
                                                      rules[2].value)))
          ELSE EvalFoldWithPrecedence(item, Tail(rules),
                 CASE op = "AND" -> result /\ matched
                   [] op = "OR" -> result \/ matched
                   [] op \in {"AND NOT", "NOT"} -> result /\ ~matched
                   [] op = "OR NOT" -> result \/ ~matched
                   [] OTHER -> result)

RECURSIVE EvalFold(_, _, _)
EvalFold(item, rules, result) ==
  IF rules = <<>> THEN result
  ELSE LET rule == Head(rules)
           op == rule.operator
           matched == MatchCondition(item, rule.type, rule.value)
       IN EvalFold(item, Tail(rules),
            CASE op = "AND" -> result /\ matched
              [] op = "OR" -> result \/ matched
              [] op \in {"AND NOT", "NOT"} -> result /\ ~matched
              [] op = "OR NOT" -> result \/ ~matched
              [] OTHER -> result)

\* sync._eval_item
EvalItem(item, rules) ==
  IF rules = <<>> THEN TRUE
  ELSE LET first_rule == Head(rules)
           seed == MatchCondition(item, first_rule.type, first_rule.value)
       IN EvalFold(item, Tail(rules),
                   IF EndsWithNot(first_rule.operator) THEN ~seed ELSE seed)

\* ------------------------------------------------------------- sorting
\* the fields of a catalogue item whose values are numbers
NumericFields == {"CommunityRating", "ProductionYear"}

\* value or "" in the key of _sort_items_in_memory: None, the number 0 and the
\* empty string all become the empty string; every other value is kept
SortValue(item, primary_key) ==
  IF ~HasKey(item, primary_key) THEN [str |-> TRUE, s |-> <<>>, n |-> 0]
  ELSE IF primary_key \in NumericFields
       THEN IF item[primary_key] = 0 THEN [str |-> TRUE, s |-> <<>>, n |-> 0]
            ELSE [str |-> FALSE, s |-> <<>>, n |-> item[primary_key]]
       ELSE [str |-> TRUE, s |-> item[primary_key], n |-> 0]

\* the key of _sort_items_in_memory: (missing flag, value or "")
SortKey(item, primary_key, reverse) ==
  LET has == HasKey(item, primary_key)
  IN << IF reverse THEN (IF has THEN 1 ELSE 0) ELSE (IF has THEN 0 ELSE 1),
        SortValue(item, primary_key) >>

\* Python's < on two key values of one type
ValLt(a, b) ==
  IF a.str /\ b.str THEN StrLt(a.s, b.s)
  ELSE IF ~a.str /\ ~b.str THEN a.n < b.n
  ELSE FALSE

\* Python's < on two key tuples: the values are compared when the flags agree
KeyLt(a, b) == a[1] < b[1] \/ (a[1] = b[1] /\ ValLt(a[2], b[2]))

\* the TypeError of sorted(): ordering the list needs the comparison of two
\* keys with equal flags whose values are a string and a number
SortRaises(items, sort_order) ==
  /\ sort_order \in DOMAIN SORT_MAP
  /\ \E i, j \in DOMAIN items :
       LET a == SortKey(items[i], SORT_MAP[sort_order].key, SORT_MAP[sort_order].reverse)
           b == SortKey(items[j], SORT_MAP[sort_order].key, SORT_MAP[sort_order].reverse)
       IN a[1] = b[1] /\ a[2].str # b[2].str

\* x goes before y in the result when the order is strict; ties keep input order
GoesBefore(x, y, primary_key, reverse) ==
  IF reverse THEN KeyLt(SortKey(y, primary_key, reverse), SortKey(x, primary_key, reverse))
  ELSE KeyLt(SortKey(x, primary_key, reverse), SortKey(y, primary_key, reverse))

RECURSIVE StableInsert(_, _, _, _)
StableInsert(x, sorted, primary_key, reverse) ==
  IF sorted = <<>> THEN <<x>>
  ELSE IF GoesBefore(x, Head(sorted), primary_key, reverse)
       THEN <<x>> \o sorted
       ELSE <<Head(sorted)>> \o StableInsert(x, Tail(sorted), primary_key, reverse)

RECURSIVE StableSort(_, _, _)
StableSort(items, primary_key, reverse) ==
  IF items = <<>> THEN <<>>
  ELSE StableInsert(items[Len(items)],
                    StableSort(SubSeq(items, 1, Len(items) - 1), primary_key, reverse),
                    primary_key, reverse)

\* sync._sort_items_in_memory
SortItemsInMemory(items, sort_order) ==
  IF sort_order \notin DOMAIN SORT_MAP THEN items
  ELSE StableSort(items, SORT_MAP[sort_order].key, SORT_MAP[sort_order].reverse)

\* sync._fetch_items_for_complex_group, after the library fetch
ComplexItems(raw_items, rules, sort_order, watch_state) ==
  LET norm == [i \in DOMAIN rules |->
                 [operator |-> rules[i].operator,
                  type |-> Normalize(rules[i].type),
                  value |-> Normalize(rules[i].value)]]
      valid_rules == SelectSeq(norm, LAMBDA r : r.type # "" /\ r.value # "")
  IN IF rules = <<>> \/ valid_rules = <<>> THEN <<>>
     ELSE SortItemsInMemory(
            WatchFilter(SelectSeq(raw_items, LAMBDA i : EvalItem(i, valid_rules)),
                        watch_state),
            sort_order)

\* --------------------------------------------------- textual rule queries
\* a query string is the sequence of its whitespace-separated words
OperatorWords == {"AND", "OR"}

\* re.search(r'\s+(AND NOT|OR NOT|AND|OR)\s+', val): an operator word with
\* text on both sides
HasOperator(words) ==
  \E i \in 2..(Len(words) - 1) : words[i] \in OperatorWords

RECURSIVE JoinWords(_)
JoinWords(segment) ==
  IF segment = <<>> THEN ""
  ELSE IF Len(segment) = 1 THEN segment[1]
  ELSE segment[1] \o " " \o JoinWords(Tail(segment))

\* _parse_item on the words of one segment (the words of the model carry no
\* "type:" prefix, so the default type applies)
ParseItem(segment, default_type) ==
  [type |-> default_type, value |-> JoinWords(segment)]

RECURSIVE ParseFrom(_, _, _, _)
ParseFrom(words, op, segment, default_type) ==
  LET emit == <<[operator |-> op] @@ ParseItem(segment, default_type)>>
  IN IF words = <<>> THEN emit
     ELSE IF Head(words) \in OperatorWords /\ segment # <<>> /\ Len(words) > 1
          THEN IF words[2] = "NOT" /\ Len(words) > 2
               THEN emit \o ParseFrom(SubSeq(words, 3, Len(words)),
                                      Head(words) \o " NOT", <<>>, default_type)
               ELSE emit \o ParseFrom(Tail(words), Head(words), <<>>, default_type)
          ELSE ParseFrom(Tail(words), op, Append(segment, Head(words)), default_type)

\* sync.parse_complex_query
ParseComplexQuery(words, default_type) == ParseFrom(words, "AND", <<>>, default_type)

\* ------------------------------------------------- external collaborators
\* what the list fetchers (fetch_imdb_list, fetch_trakt_list, ...) answer for
\* a source_value: they raise, or return the list's IDs
ExternalFetch(source_type, source_value) ==
  CASE source_value = <<"bad">> -> [raised |-> TRUE, ids |-> <<>>]
    [] source_value = <<"none">> -> [raised |-> FALSE, ids |-> <<>>]
    [] source_type \in {"imdb_list", "trakt_list"} ->
         [raised |-> FALSE,
          ids |-> << <<"t", "t", "2">>, <<"T", "T", "1">>, <<"t", "t", "9">> >>]
    [] source_type \in {"tmdb_list", "recommendations"} ->
         [raised |-> FALSE, ids |-> << <<"3">>, <<"1">>, <<"8">> >>]
    [] source_type = "letterboxd_list" ->
         [raised |-> FALSE, ids |-> << <<"t", "t", "1">>, <<"4">>, <<"1">> >>]
    [] OTHER -> [raised |-> FALSE, ids |-> << <<"7">> >>]

\* the Jellyfin /Items query of a metadata group (Fields=Path): the server
\* filters by the value and the watch state; its order is the server's
MetadataQuery(library, source_type, source_value, watch_state) ==
  LET byValue ==
        IF source_type = "genre" /\ source_value # <<>>
        THEN SelectSeq(library, LAMBDA i : JoinWords(source_value) \in i.Genres)
        ELSE IF source_type = "year" /\ source_value # <<>>
        THEN SelectSeq(library, LAMBDA i : HasKey(i, "ProductionYear")
                         /\ Concat(IntStr(i.ProductionYear)) = JoinWords(source_value))
        ELSE library
  IN WatchFilter(byValue, watch_state)

\* get_cover_path(group_name, target_base): the groups with an uploaded cover
CoverGroups == {"a"}

\* the provider id key and the list-order sentinel of a list source
ProviderKey(source_type) ==
  CASE source_type \in {"imdb_list", "trakt_list"} -> "Imdb"
    [] source_type \in {"tmdb_list", "recommendations"} -> "Tmdb"
    [] source_type = "anilist_list" -> "AniList"
    [] OTHER -> "Mal"

ListOrderKey(source_type) ==
  CASE source_type = "imdb_list" -> "imdb_list_order"
    [] source_type = "trakt_list" -> "trakt_list_order"
    [] source_type = "tmdb_list" -> "tmdb_list_order"
    [] source_type = "anilist_list" -> "anilist_list_order"
    [] source_type = "mal_list" -> "mal_list_order"
    [] source_type = "letterboxd_list" -> "letterboxd_list_order"
    [] OTHER -> "recommendations_list_order"

\* the credential a list source needs; "-" when it needs none
Credential(cfg, source_type) ==
  CASE source_type = "trakt_list" -> cfg.trakt_client_id
    [] source_type \in {"tmdb_list", "recommendations"} -> cfg.tmdb_api_key
    [] source_type = "mal_list" -> cfg.mal_client_id
    [] OTHER -> "-"

\* ---------------------------------------------------------- configuration
NoSeason == [seasonal_enabled |-> FALSE, seasonal_start |-> PyNone,
             seasonal_end |-> PyNone]

Winter == [seasonal_enabled |-> TRUE,
           seasonal_start |-> PyStr(<<"0", "2", "-", "0", "1">>),
           seasonal_end |-> PyStr(<<"0", "1", "-", "0", "2">>)]

Group(name, source_type, source_value, sort_order, watch_state, rules, season) ==
  [name |-> name, source_type |-> source_type, source_value |-> source_value,
   sort_order |-> sort_order, watch_state |-> watch_state, rules |-> rules]
  @@ season

\* the groupings a configuration is made of
GroupSet ==
  { Group("a", "imdb_list", <<"l1">>, "imdb_list_order", "", <<>>,
          [seasonal_enabled |-> TRUE, seasonal_start |-> PyNone,
           seasonal_end |-> PyStr(<<"0", "1", "-", "0", "2">>)]),
    Group("b", "tmdb_list", <<"l1">>, "", "", <<>>, NoSeason),
    Group("a", "trakt_list", <<"bad">>, "CommunityRating", "", <<>>, NoSeason),
    Group("b", "mal_list", <<"l1">>, "", "", <<>>, NoSeason),
    Group("b", "anilist_list", <<"none">>, "SortName", "", <<>>, NoSeason),
    Group("a", "genre", <<"action">>, "ProductionYear", "", <<>>, Winter),
    Group("a", "complex", <<>>, "", "watched",
          <<[operator |-> "AND", type |-> "genre", value |-> "Action"]>>, NoSeason),
    Group("", "imdb_list", <<"l1">>, "", "", <<>>, Winter) }

\* groupings that are configured on their own
SingleGroups ==
  { Group("b", "recommendations", <<>>, "ProductionYear", "", <<>>, NoSeason),
    Group("b", "letterboxd_list", <<"l1">>, "letterboxd_list_order", "unwatched",
          <<>>, NoSeason),
    Group("b", "genre", <<"action", "AND", "NOT", "scifi">>, "CommunityRating",
          "", <<>>, NoSeason) }

RECURSIVE SeqsUpTo(_, _)
SeqsUpTo(S, n) ==
  IF n = 0 THEN {<<>>}
  ELSE LET shorter == SeqsUpTo(S, n - 1)
       IN shorter \cup {Append(q, x) : q \in shorter, x \in S}

\* complete settings: the MyAnimeList client id is not set
GoodSettings ==
  [jellyfin_url |-> "u", api_key |-> "k", target_path |-> "/t",
   trakt_client_id |-> "c", tmdb_api_key |-> "c", mal_client_id |-> "",
   media_path_in_jellyfin |-> <<"jf">>, media_path_on_host |-> <<"host">>]

\* settings that lack the server URL, the API key or the target path
BadSettings ==
  { [GoodSettings EXCEPT !.jellyfin_url = ""],
    [GoodSettings EXCEPT !.api_key = ""],
    [GoodSettings EXCEPT !.target_path = ""] }

\* the configurations config.json may hold
ConfigSet ==
  { GoodSettings @@ [groups |-> gs] : gs \in SeqsUpTo(GroupSet, MaxGroups) }
  \cup { GoodSettings @@ [groups |-> <<g>>] : g \in SingleGroups }
  \cup { st @@ [groups |-> <<g>>] : st \in BadSettings,
           g \in {x \in GroupSet : x.source_type = "tmdb_list"} }

Dates == {[month |-> m, day |-> d] : m \in 1..MaxMonth, d \in 1..MaxDay}

\* ------------------------------------------------------------------ state
VARIABLES
  config,   \* the stored configuration (config.json)
  today,    \* datetime.now(), month and day
  jfUp,     \* the Jellyfin server answers /Items
  libVer,   \* which of Libraries the server holds now
  fs,       \* the target root: [root, dirs]
  cache,    \* sync._LIBRARY_CACHE: (url, api_key) -> version held, 0 for no entry
  lock,     \* scheduler.sync_lock: the thread holding it, 0 when free
  th,       \* the handler each thread executes and its local variables
  hist,     \* the completed run_sync invocations, oldest first
  pure      \* input and result of a function evaluated on its own

vars == <<config, today, jfUp, libVer, fs, cache, lock, th, hist, pure>>

Threads == 1..NumThreads

DirNames == {"a", "b"}

NoDir == [exists |-> FALSE, poster |-> FALSE, links |-> {}]

\* a grouping directory left by an earlier run: one live and one broken link
StaleDir == [exists |-> TRUE, poster |-> FALSE,
             links |-> {[name |-> <<"x.mkv">>, target |-> <<"host", "m1", "x.mkv">>],
                        [name |-> <<"0001", " - ", "old.mkv">>,
                         target |-> <<"host", "m1", "old.mkv">>]}]

PREVIEW_CAP == 100

CacheKeys == {<<"u", "k">>}

CacheKey(cfg) == <<cfg.jellyfin_url, cfg.api_key>>

EmptyCache == [k \in CacheKeys |-> 0]

Idle == [pc |-> "idle", kind |-> "none", cfg |-> <<>>, dry |-> FALSE,
         all |-> TRUE, names |-> {}, idx |-> 0, results |-> <<>>, log |-> <<>>,
         ext |-> <<>>, events |-> {}, pv |-> <<>>, fetches |-> 0, snaps |-> {},
         runs |-> 0, budget |-> 0, plan |-> "repeat"]

\* the pc values inside run_sync
RunPcs == {"begin", "loop", "ext_fetch", "lib_check", "lib_fetch", "meta_fetch"}

InRun(t) == th[t].kind # "api_preview_group" /\ th[t].pc \in RunPcs

JobKinds == {"global_job", "group_job", "cleanup_job"}

\* ------------------------------------------------------------ filesystem
\* shutil.rmtree(group_dir)
RemoveDir(f, name) == [f EXCEPT !.dirs[name] = NoDir]

\* WipeDir, but a directory that exists keeps its entries (makedirs only)
WipeDirKeepingEntries(f, name, dry_run) ==
  IF dry_run THEN f
  ELSE IF f.dirs[name].exists THEN [f EXCEPT !.root = TRUE]
  ELSE [f EXCEPT !.root = TRUE,
                 !.dirs[name] = [exists |-> TRUE, poster |-> name \in CoverGroups,
                                 links |-> {}]]

\* sync.py 964-980: wipe and recreate the grouping directory, copy the cover
WipeDir(f, name, dry_run) ==
  IF dry_run THEN f
  ELSE [f EXCEPT !.root = TRUE,
                 !.dirs[name] = [exists |-> TRUE, poster |-> name \in CoverGroups,
                                 links |-> {}]]

\* GateDir, but the directory is deleted in a dry run too
GateDirInDryRunToo(f, name, dry_run) ==
  IF name # "" /\ f.dirs[name].exists THEN RemoveDir(f, name) ELSE f

\* GateDir, but the directory of an out-of-season grouping is left alone
GateDirLeavingDir(f, name, dry_run) == f

\* sync.py 1236-1240: the directory of an out-of-season grouping is deleted
GateDir(f, name, dry_run) ==
  IF ~dry_run /\ name # "" /\ f.dirs[name].exists THEN RemoveDir(f, name) ELSE f

\* the entries of a directory by name (poster.jpg is a regular file)
DirEntryNames(d) ==
  {l.name : l \in d.links} \cup (IF d.poster THEN {<<"poster.jpg">>} ELSE {})

\* sync.py 1056-1088: the loop over the items; acc = [links, count, preview]
RECURSIVE LinkLoop(_, _, _, _, _, _, _)
LinkLoop(items, idx, width, use_prefix, cfg, dry_run, acc) ==
  IF idx > Len(items) THEN acc
  ELSE LET item == items[idx]
           source_path == Get(item, "Path")
           host_path == TranslatePath(source_path, cfg.media_path_in_jellyfin,
                                      cfg.media_path_on_host)
           file_name == LinkName(idx, width, host_path, use_prefix)
           next ==
             IF source_path = <<>> \/ host_path \notin MediaFiles THEN acc
             ELSE IF dry_run
             THEN [acc EXCEPT !.count = @ + 1,
                              !.preview = IF Len(@) < PREVIEW_CAP
                                          THEN Append(@, file_name) ELSE @]
             ELSE IF ~acc.exists \/ file_name \in acc.taken THEN acc
             ELSE [acc EXCEPT !.count = @ + 1,
                              !.taken = @ \cup {file_name},
                              !.links = @ \cup {[name |-> file_name,
                                                 target |-> host_path]}]
       IN LinkLoop(items, idx + 1, width, use_prefix, cfg, dry_run, next)

\* sync.py 1040-1048: the in-memory sort of an external-list grouping
SortForLinks(items, g) ==
  IF g.source_type \in LIST_SOURCES /\ g.sort_order # ""
     /\ g.sort_order \notin LIST_ORDER_VALUES /\ g.sort_order \in DOMAIN SORT_MAP
  THEN SortItemsInMemory(items, g.sort_order)
  ELSE items

\* Materialize, but links counts every item that has a file on the host,
\* whether or not its symlink was created
MaterializeCountingAttempts(items0, g, cfg, dry_run, dir) ==
  IF items0 = <<>>
  THEN [result |-> [group |-> g.name, links |-> 0], dir |-> dir]
  ELSE LET items == SortForLinks(items0, g)
           acc == LinkLoop(items, 1, PrefixWidth(Len(items)), g.sort_order # "",
                           cfg, dry_run,
                           [links |-> dir.links, taken |-> DirEntryNames(dir),
                            exists |-> dir.exists, count |-> 0,
                            preview |-> <<>>])
           attempts == {i \in DOMAIN items :
                          TranslatePath(Get(items[i], "Path"), cfg.media_path_in_jellyfin,
                                        cfg.media_path_on_host) \in MediaFiles}
       IN [result |-> [group |-> g.name, links |-> Cardinality(attempts)]
                      @@ (IF dry_run THEN [items |-> acc.preview] ELSE <<>>),
           dir |-> [dir EXCEPT !.links = acc.links]]

\* sync.py 1034-1096: the tail of _process_group for resolved items; gives
\* the result and the grouping directory
Materialize(items0, g, cfg, dry_run, dir) ==
  IF items0 = <<>>
  THEN [result |-> [group |-> g.name, links |-> 0], dir |-> dir]
  ELSE LET items == SortForLinks(items0, g)
           acc == LinkLoop(items, 1, PrefixWidth(Len(items)), g.sort_order # "",
                           cfg, dry_run,
                           [links |-> dir.links, taken |-> DirEntryNames(dir),
                            exists |-> dir.exists, count |-> 0,
                            preview |-> <<>>])
       IN [result |-> [group |-> g.name, links |-> acc.count]
                      @@ (IF dry_run THEN [items |-> acc.preview] ELSE <<>>),
           dir |-> [dir EXCEPT !.links = acc.links]]

\* -------------------------------------------------------- handler entries
Start(t, kind, dry_run, all, names) ==
  [Idle EXCEPT !.kind = kind, !.cfg = config, !.dry = dry_run, !.all = all,
               !.names = names, !.runs = th[t].runs + 1,
               !.budget = th[t].budget, !.plan = th[t].plan]

\* a thread that serves several requests repeats the same one (plan
\* "repeat"), or previews one grouping and then runs a synchronisation
CanStart(t, kind, names) ==
  /\ th[t].pc \in {"idle", "returned", "raised", "done"}
  /\ th[t].runs < th[t].budget
  /\ IF th[t].plan = "repeat"
     THEN th[t].runs > 0 => th[t].kind = kind /\ th[t].names = names
     ELSE (th[t].runs = 0) = (kind = "api_preview_group")

\* scheduler._run_global_sync_job up to the lock: load_config, the exclusions
SchedGlobalJob(t) ==
  /\ \E exclude_names \in {{}, {"a"}} :
       LET sync_names == {g.name : g \in {x \in Range(config.groups) :
                                            x.name # "" /\ x.name \notin exclude_names}}
       IN /\ CanStart(t, "global_job", sync_names)
          /\ th' = [th EXCEPT ![t] =
                   [Start(t, "global_job", FALSE, FALSE, sync_names) EXCEPT
                      !.pc = IF sync_names # {} THEN "wait_lock" ELSE "done"]]
  /\ UNCHANGED <<config, today, jfUp, libVer, fs, cache, lock, hist, pure>>

\* scheduler._run_group_sync_job up to the lock
SchedGroupJob(t) ==
  /\ \E group_name \in DirNames :
       /\ CanStart(t, "group_job", {group_name})
       /\ th' = [th EXCEPT ![t] =
                [Start(t, "group_job", FALSE, FALSE, {group_name}) EXCEPT
                   !.pc = "wait_lock"]]
  /\ UNCHANGED <<config, today, jfUp, libVer, fs, cache, lock, hist, pure>>

\* scheduler._run_cleanup_job up to the lock
SchedCleanupJob(t) ==
  /\ CanStart(t, "cleanup_job", {})
  /\ th' = [th EXCEPT ![t] =
              [Start(t, "cleanup_job", FALSE, TRUE, {}) EXCEPT !.pc = "wait_lock"]]
  /\ UNCHANGED <<config, today, jfUp, libVer, fs, cache, lock, hist, pure>>

\* "with sync_lock:" entered
AcquireLock(t) ==
  /\ th[t].pc = "wait_lock"
  /\ lock = 0
  /\ lock' = t
  /\ th' = [th EXCEPT ![t].pc = IF th[t].kind = "cleanup_job" THEN "cleanup"
                                ELSE "begin"]
  /\ UNCHANGED <<config, today, jfUp, libVer, fs, cache, hist, pure>>

\* routes.sync_groupings: load_config, then run_sync(config)
ApiSync(t) ==
  /\ CanStart(t, "api_sync", {})
  /\ th' = [th EXCEPT ![t] =
              [Start(t, "api_sync", FALSE, TRUE, {}) EXCEPT !.pc = "begin"]]
  /\ UNCHANGED <<config, today, jfUp, libVer, fs, cache, lock, hist, pure>>

\* routes.preview_all_sync: load_config, then run_sync(config, dry_run=True)
ApiPreviewAll(t) ==
  /\ CanStart(t, "api_preview_all", {})
  /\ th' = [th EXCEPT ![t] =
              [Start(t, "api_preview_all", TRUE, TRUE, {}) EXCEPT !.pc = "begin"]]
  /\ UNCHANGED <<config, today, jfUp, libVer, fs, cache, lock, hist, pure>>

\* Released, but the lock is kept when run_sync raises
ReleasedOnReturnOnly(t) ==
  IF th[t].kind \in JobKinds /\ lock = t /\ th[t].pc # "begin" THEN 0 ELSE lock

\* the lock a handler gives up when its run ends ("with" exits)
Released(t) == IF th[t].kind \in JobKinds /\ lock = t THEN 0 ELSE lock

\* ------------------------------------------------------------- run_sync
\* sync.py 1198: the settings a run cannot do without
SettingsMissing(cfg) ==
  cfg.jellyfin_url = "" \/ cfg.api_key = "" \/ cfg.target_path = ""

\* RunBegin, but the target root is created and the cache cleared before the
\* settings are looked at
RunBeginValidatingLate(t) ==
  /\ th[t].pc = "begin"
  /\ fs' = IF th[t].dry THEN fs ELSE [fs EXCEPT !.root = TRUE]
  /\ cache' = EmptyCache
  /\ IF SettingsMissing(th[t].cfg)
     THEN /\ th' = [th EXCEPT ![t].pc = "raised"]
          /\ lock' = Released(t)
     ELSE /\ th' = [th EXCEPT ![t].pc = "loop", ![t].idx = 1]
          /\ UNCHANGED lock
  /\ UNCHANGED <<config, today, jfUp, libVer, hist, pure>>

\* sync.py 1180-1218: run_sync up to the loop; ValueError on missing settings
RunBegin(t) ==
  /\ th[t].pc = "begin"
  /\ IF SettingsMissing(th[t].cfg)
     THEN /\ th' = [th EXCEPT ![t].pc = "raised"]
          /\ lock' = Released(t)
          /\ UNCHANGED <<fs, cache>>
     ELSE /\ fs' = IF th[t].dry THEN fs ELSE [fs EXCEPT !.root = TRUE]
          /\ cache' = EmptyCache
          /\ th' = [th EXCEPT ![t].pc = "loop", ![t].idx = 1]
          /\ UNCHANGED lock
  /\ UNCHANGED <<config, today, jfUp, libVer, hist, pure>>

CurGroup(t) ==
  IF th[t].kind = "api_preview_group" THEN th[t].pv
  ELSE th[t].cfg.groups[th[t].idx]

\* Selected, but group_names is not looked at
SelectedWhateverTheNames(g, all, names) == all \/ g.name # ""

\* sync.py 1227-1229: the grouping is part of this run
Selected(g, all, names) == all \/ (g.name # "" /\ g.name \in names)

\* Recorded, but a result with an error ends the loop
RecordedEndingOnError(t, result, events) ==
  [th[t] EXCEPT !.pc = IF th[t].kind = "api_preview_group" THEN "done" ELSE "loop",
                !.idx = IF "error" \in DOMAIN result
                        THEN Len(th[t].cfg.groups) + 1 ELSE @ + 1,
                !.results = Append(@, result),
                !.log = Append(@, events), !.events = {}, !.ext = <<>>]

\* the result of the grouping is recorded and the loop moves on
Recorded(t, result, events) ==
  IF th[t].kind = "api_preview_group"
  THEN [th[t] EXCEPT !.pc = "done", !.results = <<result>>,
                     !.log = <<events>>, !.events = {}, !.ext = <<>>]
  ELSE [th[t] EXCEPT !.pc = "loop", !.idx = @ + 1,
                     !.results = Append(@, result),
                     !.log = Append(@, events), !.events = {}, !.ext = <<>>]

ErrorResult(g, msg) == [group |-> g.name, links |-> 0, error |-> msg]

\* where _process_group resolves the items of a grouping (sync.py 987-1032)
ResolvePc(g) ==
  IF g.source_type \in LIST_SOURCES THEN "ext_fetch"
  ELSE IF g.rules # <<>> THEN "lib_check"
  ELSE IF g.source_type \in {"genre", "actor", "studio", "tag", "year"}
          /\ HasOperator(g.source_value)
  THEN "lib_check"
  ELSE "meta_fetch"

\* the rules of a grouping that resolves through _fetch_items_for_complex_group
RulesOf(g) ==
  IF g.rules # <<>> THEN g.rules
  ELSE ParseComplexQuery(g.source_value, g.source_type)

\* sync.py 1221-1244 and 953-980: the loop head for one grouping: selection,
\* the seasonal gate, and the start of _process_group
BeginGroup(t) ==
  /\ InRun(t) /\ th[t].pc = "loop"
  /\ th[t].idx <= Len(th[t].cfg.groups)
  /\ LET g == CurGroup(t)
     IN IF ~Selected(g, th[t].all, th[t].names)
        THEN /\ th' = [th EXCEPT ![t].idx = @ + 1]
             /\ fs' = fs
        ELSE IF g.seasonal_enabled
                /\ ~IsInSeason(g.seasonal_start, g.seasonal_end, today)
        THEN /\ fs' = GateDir(fs, g.name, th[t].dry)
             /\ th' = [th EXCEPT ![t] =
                  Recorded(t, [group |-> IF g.name = "" THEN "(unnamed)" ELSE g.name,
                               links |-> 0, status |-> "out_of_season"], {})]
        ELSE IF g.name = ""
        THEN /\ th' = [th EXCEPT ![t] =
                  Recorded(t, [group |-> "(unnamed)", links |-> 0,
                               error |-> "Empty group name"], {})]
             /\ fs' = fs
        ELSE /\ fs' = WipeDir(fs, g.name, th[t].dry)
             /\ th' = [th EXCEPT ![t].pc = ResolvePc(g)]
  /\ UNCHANGED <<config, today, jfUp, libVer, cache, lock, hist, pure>>

\* ListSourceOutcome, but an empty external list is reported as an error
ListSourceOutcomeEmptyIsError(g, cfg) ==
  LET answer == ExternalFetch(g.source_type, g.source_value)
  IN IF Credential(cfg, g.source_type) = ""
     THEN [error |-> "credential not set", called |-> FALSE, ids |-> <<>>]
     ELSE IF g.source_type = "recommendations" /\ g.source_value = <<>>
     THEN [error |-> "User ID must be selected for recommendations",
           called |-> FALSE, ids |-> <<>>]
     ELSE IF answer.raised \/ answer.ids = <<>>
     THEN [error |-> "fetch error", called |-> TRUE, ids |-> <<>>]
     ELSE [error |-> "", called |-> TRUE, ids |-> answer.ids]

\* the outcome of the fetcher of a list source before the library is needed
\* (_fetch_items_for_imdb_group ... _fetch_items_for_recommendations_group):
\* an error message, or the external IDs
ListSourceOutcome(g, cfg) ==
  LET answer == ExternalFetch(g.source_type, g.source_value)
  IN IF Credential(cfg, g.source_type) = ""
     THEN [error |-> "credential not set", called |-> FALSE, ids |-> <<>>]
     ELSE IF g.source_type = "recommendations" /\ g.source_value = <<>>
     THEN [error |-> "User ID must be selected for recommendations",
           called |-> FALSE, ids |-> <<>>]
     ELSE IF answer.raised
     THEN [error |-> "fetch error", called |-> TRUE, ids |-> <<>>]
     ELSE [error |-> "", called |-> TRUE, ids |-> answer.ids]

\* the external list of a list-source grouping is fetched
ExtFetch(t) ==
  /\ InRun(t) /\ th[t].pc = "ext_fetch"
  /\ LET g == CurGroup(t)
         out == ListSourceOutcome(g, th[t].cfg)
         ev == IF out.called THEN {"ext_called"} ELSE {}
     IN th' = [th EXCEPT ![t] =
          IF out.error # "" THEN Recorded(t, ErrorResult(g, out.error), ev)
          ELSE IF out.ids = <<>>
          THEN Recorded(t, [group |-> g.name, links |-> 0], ev)
          ELSE [th[t] EXCEPT !.pc = "lib_check", !.ext = out.ids, !.events = ev]]
  /\ UNCHANGED <<config, today, jfUp, libVer, fs, cache, lock, hist, pure>>

\* the items of a grouping resolved against the full library raw_items
ResolveAgainst(raw_items, g, external_ids) ==
  IF g.source_type = "letterboxd_list"
  THEN MatchLetterboxd(external_ids, g.sort_order, raw_items, g.watch_state)
  ELSE IF g.source_type \in LIST_SOURCES
  THEN MatchByProvider(external_ids, ProviderKey(g.source_type),
                       ListOrderKey(g.source_type), g.sort_order, raw_items,
                       g.watch_state)
  ELSE ComplexItems(raw_items, RulesOf(g), g.sort_order, g.watch_state)

\* the thread and the filesystem after the items of the grouping are resolved
Linked(t, items, events, version) ==
  LET g == CurGroup(t)
      preview == th[t].kind = "api_preview_group"
      dir == IF preview THEN NoDir ELSE fs.dirs[g.name]
      m == Materialize(items, g, th[t].cfg, preview \/ th[t].dry, dir)
      rec == Recorded(t, m.result, events)
  IN [th |-> [rec EXCEPT !.snaps = IF version = 0 THEN @ ELSE @ \cup {version}],
      fs |-> IF preview \/ th[t].dry THEN fs
             ELSE [fs EXCEPT !.dirs[g.name] = m.dir]]

\* sync.py 142-144: _fetch_full_library finds the snapshot in the cache
LibCheck(t) ==
  /\ th[t].pc = "lib_check"
  /\ LET held == cache[CacheKey(th[t].cfg)]
     IN IF held # 0
        THEN LET n == Linked(t, ResolveAgainst(Libraries[held], CurGroup(t), th[t].ext),
                             th[t].events, held)
             IN th' = [th EXCEPT ![t] = n.th] /\ fs' = n.fs
        ELSE th' = [th EXCEPT ![t].pc = "lib_fetch"] /\ fs' = fs
  /\ UNCHANGED <<config, today, jfUp, libVer, cache, lock, hist, pure>>

\* sync.py 146-166: the full library is fetched from the server and cached
LibFetch(t) ==
  /\ th[t].pc = "lib_fetch"
  /\ IF jfUp
     THEN LET n == Linked(t, ResolveAgainst(Libraries[libVer], CurGroup(t), th[t].ext),
                          th[t].events \cup {"lib_called"}, libVer)
          IN /\ th' = [th EXCEPT ![t] = [n.th EXCEPT !.fetches = @ + 1]]
             /\ fs' = n.fs
             /\ cache' = [cache EXCEPT ![CacheKey(th[t].cfg)] = libVer]
     ELSE /\ th' = [th EXCEPT ![t] =
                 Recorded(t, ErrorResult(CurGroup(t), "Jellyfin connection error"),
                          th[t].events \cup {"lib_called", "lib_failed"})]
          /\ UNCHANGED <<fs, cache>>
  /\ UNCHANGED <<config, today, jfUp, libVer, lock, hist, pure>>

\* sync._fetch_items_for_metadata_group: the filtered query, never cached
MetaFetch(t) ==
  /\ th[t].pc = "meta_fetch"
  /\ LET g == CurGroup(t)
     IN IF jfUp
        THEN LET n == Linked(t, MetadataQuery(Libraries[libVer], g.source_type,
                                              g.source_value, g.watch_state),
                             {"meta_called"}, 0)
             IN th' = [th EXCEPT ![t] = n.th] /\ fs' = n.fs
        ELSE /\ th' = [th EXCEPT ![t] =
                    Recorded(t, ErrorResult(g, "Jellyfin connection error"),
                             {"meta_called", "meta_failed"})]
             /\ fs' = fs
  /\ UNCHANGED <<config, today, jfUp, libVer, cache, lock, hist, pure>>

\* sync.py 1262-1263: the loop is over, the cache is cleared, run_sync returns
RunEnd(t) ==
  /\ InRun(t) /\ th[t].pc = "loop"
  /\ th[t].idx > Len(th[t].cfg.groups)
  /\ cache' = EmptyCache
  /\ th' = [th EXCEPT ![t].pc = "returned"]
  /\ lock' = Released(t)
  /\ hist' = Append(hist, [dry |-> th[t].dry, all |-> th[t].all,
                           names |-> th[t].names, cfg |-> th[t].cfg,
                           results |-> th[t].results, log |-> th[t].log,
                           dirs |-> fs.dirs])
  /\ UNCHANGED <<config, today, jfUp, libVer, fs, pure>>

\* sync.run_cleanup_broken_symlinks under the lock (scheduler._run_cleanup_job)
CleanupRun(t) ==
  /\ th[t].pc = "cleanup"
  /\ fs' = IF th[t].cfg.target_path = "" \/ ~fs.root THEN fs
           ELSE [fs EXCEPT !.dirs = [n \in DirNames |->
                   [fs.dirs[n] EXCEPT !.links =
                      {l \in @ : l.target \in MediaFiles}]]]
  /\ th' = [th EXCEPT ![t].pc = "done",
                      ![t].results = <<[deleted |-> Cardinality(
                          {<<n, l>> \in DirNames \X UNION {fs.dirs[d].links : d \in DirNames} :
                             l \in fs.dirs[n].links /\ l \notin fs'.dirs[n].links})]>>]
  /\ lock' = Released(t)
  /\ UNCHANGED <<config, today, jfUp, libVer, cache, hist, pure>>

\* routes.preview_grouping and sync.preview_group: one rule or value is
\* resolved outside any run
ApiPreviewGroup(t) ==
  /\ CanStart(t, "api_preview_group", {})
  /\ \E val \in {<<"action">>, <<"action", "AND", "scifi">>} :
       LET g == Group("preview", "genre", val, "", "", <<>>, NoSeason)
           s == [Start(t, "api_preview_group", FALSE, TRUE, {}) EXCEPT !.pv = g]
       IN th' = [th EXCEPT ![t] =
            IF config.jellyfin_url = "" \/ config.api_key = ""
            THEN [s EXCEPT !.pc = "done"]
            ELSE [s EXCEPT !.pc = IF HasOperator(val) THEN "lib_check"
                                  ELSE "meta_fetch"]]
  /\ UNCHANGED <<config, today, jfUp, libVer, fs, cache, lock, hist, pure>>

\* ------------------------------------------------------------ environment
\* the Jellyfin server goes down or comes back
JellyfinToggle ==
  /\ jfUp' = ~jfUp
  /\ UNCHANGED <<config, today, libVer, fs, cache, lock, th, hist, pure>>

\* the library changes upstream
LibraryChange ==
  /\ libVer < Len(Libraries)
  /\ libVer' = libVer + 1
  /\ UNCHANGED <<config, today, jfUp, fs, cache, lock, th, hist, pure>>

\* ---------------------------------------------------------- specifications
NoPure == [op |-> "none"]

InitFs ==
  { [root |-> FALSE, dirs |-> [n \in DirNames |-> NoDir]],
    [root |-> TRUE, dirs |-> [n \in DirNames |-> StaleDir]] }

\* the dates the runs of the model happen on: in and out of the Winter window
RunDates == {[month |-> 1, day |-> 1], [month |-> 1, day |-> 2]}

InitEnv ==
  /\ today \in RunDates
  /\ jfUp \in BOOLEAN
  /\ libVer = 1
  /\ fs \in InitFs
  /\ cache = EmptyCache
  /\ lock = 0
  /\ hist = <<>>
  /\ pure = NoPure

\* the configurations of the concurrent runs: two groupings that both need
\* the library, or one metadata grouping
RaceConfigs ==
  { c \in ConfigSet :
      \/ /\ Len(c.groups) = 2
         /\ c.groups[1].source_type = "imdb_list" /\ c.groups[1].name = "a"
         /\ c.groups[2].source_type \in {"tmdb_list", "complex"}
      \/ /\ Len(c.groups) = 1
         /\ c.groups[1].source_type = "genre" /\ c.groups[1].name = "a" }

\* every thread serves one request or job, concurrently with the others
Init ==
  /\ InitEnv
  /\ fs.root /\ \A n \in DirNames : fs.dirs[n].exists
  /\ config \in RaceConfigs
  /\ th = [t \in Threads |-> [Idle EXCEPT !.budget = 1]]

Handler(t) ==
  \/ SchedGlobalJob(t)
  \/ SchedGroupJob(t)
  \/ SchedCleanupJob(t)
  \/ AcquireLock(t)
  \/ ApiSync(t)
  \/ ApiPreviewAll(t)
  \/ ApiPreviewGroup(t)
  \/ RunBegin(t)
  \/ BeginGroup(t)
  \/ ExtFetch(t)
  \/ LibCheck(t)
  \/ LibFetch(t)
  \/ MetaFetch(t)
  \/ RunEnd(t)
  \/ CleanupRun(t)

Next ==
  \/ \E t \in Threads : Handler(t)
  \/ JellyfinToggle
  \/ LibraryChange

Spec == Init /\ [][Next]_vars

\* one thread serves MaxRuns requests or jobs one after the other, and the
\* server and the library stay as they are
InitSeq ==
  /\ InitEnv
  /\ config \in ConfigSet
  /\ th = [t \in Threads |-> [Idle EXCEPT !.budget = IF t = 1 THEN MaxRuns ELSE 0]]

NextSeq == \E t \in Threads : Handler(t)

SpecSeq == InitSeq /\ [][NextSeq]_vars

\* one thread previews a grouping and then serves one other request or job
\* on a configuration of one grouping
InitPreviewed ==
  /\ InitEnv
  /\ config \in {c \in ConfigSet : Len(c.groups) = 1}
  /\ th = [t \in Threads |->
             [Idle EXCEPT !.budget = IF t = 1 THEN 2 ELSE 0, !.plan = "preview_first"]]

SpecPreviewed == InitPreviewed /\ [][NextSeq]_vars

\* ------------------------------------------------ _is_in_season on its own
\* a seasonal_start or seasonal_end of the configuration: a date written as
\* MM-DD, or a value that is no string
SeasonBounds ==
  {[isDate |-> TRUE, date |-> d] : d \in Dates} \cup {[isDate |-> FALSE]}

AsPyValue(b) == IF b.isDate THEN PyStr(StrfMonthDay(b.date)) ELSE PyNone

InitSeason ==
  /\ today \in Dates
  /\ pure \in {[op |-> "season", start |-> a, end |-> b, done |-> FALSE,
                result |-> FALSE] : a \in SeasonBounds, b \in SeasonBounds}
  /\ config = GoodSettings @@ [groups |-> <<>>]
  /\ jfUp = TRUE /\ libVer = 1
  /\ fs = [root |-> FALSE, dirs |-> [n \in DirNames |-> NoDir]]
  /\ cache = EmptyCache /\ lock = 0 /\ hist = <<>>
  /\ th = [t \in Threads |-> Idle]

\* _is_in_season(start, end) is called on the date today
EvalSeason ==
  /\ pure.op = "season" /\ ~pure.done
  /\ pure' = [pure EXCEPT !.done = TRUE,
                          !.result = IsInSeason(AsPyValue(pure.start),
                                                AsPyValue(pure.end), today)]
  /\ UNCHANGED <<config, today, jfUp, libVer, fs, cache, lock, th, hist>>

SpecSeason == InitSeason /\ [][EvalSeason]_vars

\* --------------------------------------------- pure functions on their own
\* the rest of the state while a function is evaluated on its own
PureEnv ==
  /\ today = [month |-> 1, day |-> 1]
  /\ config = GoodSettings @@ [groups |-> <<>>]
  /\ jfUp = TRUE /\ libVer = 1
  /\ fs = [root |-> FALSE, dirs |-> [n \in DirNames |-> NoDir]]
  /\ cache = EmptyCache /\ lock = 0 /\ hist = <<>>
  /\ th = [t \in Threads |-> Idle]

AllItems == {ItemA, ItemB, ItemC, ItemD, ItemE}

\* rules as _eval_item receives them: normalised, with a type and a value
ValidRules ==
  {[operator |-> o, type |-> "genre", value |-> v] :
     o \in {"AND", "OR", "AND NOT", "NOT", "OR NOT"}, v \in {"action", "scifi"}}

\* rules as a grouping configures them: the value may be empty or unnormalised
RawRules ==
  {[operator |-> o, type |-> "genre", value |-> v] :
     o \in {"AND", "OR", "AND NOT"}, v \in {"Action", "scifi", ""}}

NonEmptySeqs(S, n) == SeqsUpTo(S, n) \ {<<>>}

InitRules ==
  /\ PureEnv
  /\ pure \in
       {[op |-> "eval", rules |-> rs, item |-> i, done |-> FALSE, result |-> FALSE] :
          rs \in NonEmptySeqs(ValidRules, MaxRules), i \in AllItems}
       \cup
       {[op |-> "complex", rules |-> rs, library |-> l, done |-> FALSE,
         items |-> <<>>] :
          rs \in NonEmptySeqs(RawRules, MaxRules), l \in Range(Libraries)}

\* _eval_item(item, rules)
EvalRules ==
  /\ pure.op = "eval" /\ ~pure.done
  /\ pure' = [pure EXCEPT !.done = TRUE, !.result = EvalItem(pure.item, pure.rules)]
  /\ UNCHANGED <<config, today, jfUp, libVer, fs, cache, lock, th, hist>>

\* _fetch_items_for_complex_group(rules) on a fetched library, no sort order
\* and no watch state
ResolveRules ==
  /\ pure.op = "complex" /\ ~pure.done
  /\ pure' = [pure EXCEPT !.done = TRUE,
                          !.items = ComplexItems(pure.library, pure.rules, "", "")]
  /\ UNCHANGED <<config, today, jfUp, libVer, fs, cache, lock, th, hist>>

SpecRules == InitRules /\ [][EvalRules \/ ResolveRules]_vars

\* the items _process_group resolves for a grouping that is no external list
\* when the fetch from Jellyfin succeeds (sync.py 1015-1032)
ResolveItems(g, library) ==
  IF ResolvePc(g) = "lib_check" THEN ResolveAgainst(library, g, <<>>)
  ELSE MetadataQuery(library, g.source_type, g.source_value, g.watch_state)

\* the words a source_value is written with
QueryWords == {"action", "scifi", "NOT", "AND", "OR"}

InitResolve ==
  /\ PureEnv
  /\ pure \in
       {[op |-> "resolve",
         g |-> Group("a", st, ws, "", "", <<>>, NoSeason),
         library |-> l, done |-> FALSE, items |-> <<>>] :
          st \in {"genre", "complex"},
          ws \in NonEmptySeqs(QueryWords, MaxWords),
          l \in Range(Libraries)}

\* the resolution step of _process_group for the grouping
ResolveQuery ==
  /\ pure.op = "resolve" /\ ~pure.done
  /\ pure' = [pure EXCEPT !.done = TRUE,
                          !.items = ResolveItems(pure.g, pure.library)]
  /\ UNCHANGED <<config, today, jfUp, libVer, fs, cache, lock, th, hist>>

SpecResolve == InitResolve /\ [][ResolveQuery]_vars

\* IDs an external list may hold: IMDb IDs in either case, TMDb IDs
ExternalIds ==
  { <<"T", "T", "1">>, <<"t", "t", "2">>, <<"t", "t", "9">>,
    <<"t", "t", "3">>, <<"1">>, <<"3">> }

\* library snapshots: the libraries of the model, and two in which two items
\* carry the same IMDb ID up to case
Snapshots == Range(Libraries) \cup {<<ItemE, ItemA>>, <<ItemA, ItemE>>}

InitMatch ==
  /\ PureEnv
  /\ pure \in
       {[op |-> "match", external_ids |-> ids, provider_key |-> pk,
         watch_state |-> ws, raw_items |-> l, done |-> FALSE, items |-> <<>>] :
          ids \in NonEmptySeqs(ExternalIds, MaxIds), pk \in {"Imdb", "Tmdb"},
          ws \in {"", "unwatched", "watched"}, l \in Snapshots}
       \cup
       {[op |-> "letterboxd", external_ids |-> ids, sort_order |-> so,
         watch_state |-> ws, raw_items |-> l, done |-> FALSE, items |-> <<>>] :
          ids \in NonEmptySeqs(ExternalIds, MaxIds),
          so \in {"letterboxd_list_order", "SortName"},
          ws \in {"", "unwatched", "watched"}, l \in Snapshots}

\* _match_jellyfin_items_by_provider in list-order mode, on a fetched library
MatchIds ==
  /\ pure.op = "match" /\ ~pure.done
  /\ pure' = [pure EXCEPT !.done = TRUE,
       !.items = MatchByProvider(pure.external_ids, pure.provider_key,
                                 "imdb_list_order", "imdb_list_order",
                                 pure.raw_items, pure.watch_state)]
  /\ UNCHANGED <<config, today, jfUp, libVer, fs, cache, lock, th, hist>>

\* _fetch_items_for_letterboxd_group on a fetched list and library
MatchLetterboxdIds ==
  /\ pure.op = "letterboxd" /\ ~pure.done
  /\ pure' = [pure EXCEPT !.done = TRUE,
       !.items = MatchLetterboxd(pure.external_ids, pure.sort_order,
                                 pure.raw_items, pure.watch_state)]
  /\ UNCHANGED <<config, today, jfUp, libVer, fs, cache, lock, th, hist>>

SpecMatch == InitMatch /\ [][MatchIds \/ MatchLetterboxdIds]_vars

\* --- _sort_items_in_memory on item lists
MaxSortItems == 3
MaxSortValue == 2

\* a string value of the sort field: "", "a", "aa", ...
StringValue(k) == [i \in 1..k |-> "a"]

\* the item at position i of an input list: choice 0 leaves the sort field
\* out, choice c > 0 gives it the value c - 1 (a number or a string, by the
\* type of the field); the SortName of the items falls along the list, so the
\* secondary component of a compound key would reorder them
SortInputItem(i, c, primary_key) ==
  LET base == IF primary_key = "SortName" THEN [Id |-> i]
              ELSE [Id |-> i, SortName |-> StringValue(MaxSortItems + 1 - i)]
  IN IF c = 0 THEN base
     ELSE IF primary_key \in NumericFields THEN (primary_key :> (c - 1)) @@ base
     ELSE (primary_key :> StringValue(c - 1)) @@ base

SortInput(choices, sort_order) ==
  [i \in DOMAIN choices |-> SortInputItem(i, choices[i], SORT_MAP[sort_order].key)]

InitSort ==
  /\ PureEnv
  /\ pure \in
       {[op |-> "sort", sort_order |-> so, input |-> SortInput(cs, so),
         done |-> FALSE, raised |-> FALSE, items |-> <<>>] :
          so \in DOMAIN SORT_MAP,
          cs \in NonEmptySeqs(0..(MaxSortValue + 1), MaxSortItems)}

\* _sort_items_in_memory: the sorted list, or the TypeError of sorted()
SortItems ==
  /\ pure.op = "sort" /\ ~pure.done
  /\ pure' = [pure EXCEPT !.done = TRUE,
       !.raised = SortRaises(pure.input, pure.sort_order),
       !.items = IF SortRaises(pure.input, pure.sort_order) THEN <<>>
                 ELSE SortItemsInMemory(pure.input, pure.sort_order)]
  /\ UNCHANGED <<config, today, jfUp, libVer, fs, cache, lock, th, hist>>

SpecSort == InitSort /\ [][SortItems]_vars

\* --- the links of one grouping: their names and the loop that creates them
MaxDigits == 5
MaxLinkItems == 4

\* item counts and positions around every change of the number of digits
Boundaries ==
  {1, 2} \cup UNION {{10^k - 1, 10^k, 10^k + 1} : k \in 1..(MaxDigits - 1)}

\* the items whose translated path exists on the host
LinkableItems == {i \in AllItems : TranslatePath(Get(i, "Path"), <<"jf">>, <<"host">>) \in MediaFiles}

InitLinks ==
  /\ PureEnv
  /\ pure \in
       {[op |-> "name", sort_order |-> so, count |-> p[1], idx |-> p[2], idx2 |-> p[3],
         item |-> x, item2 |-> y, done |-> FALSE, name |-> <<>>, name2 |-> <<>>] :
          so \in {"", "SortName"},
          p \in {q \in Boundaries \X Boundaries \X Boundaries : q[2] <= q[1] /\ q[3] <= q[1]},
          x \in LinkableItems, y \in {ItemA, ItemB}}
       \cup
       {[op |-> "links", sort_order |-> so, input |-> l, dry_run |-> dry,
         poster |-> p, done |-> FALSE, result |-> <<>>, dir |-> NoDir] :
          so \in {"", "SortName"}, l \in NonEmptySeqs(AllItems, MaxLinkItems),
          dry \in BOOLEAN, p \in BOOLEAN}

\* sync.py 1051-1076: the names of the links of the items at two positions of
\* a list of count items
NameLinks ==
  /\ pure.op = "name" /\ ~pure.done
  /\ LET width == PrefixWidth(pure.count)
         use_prefix == pure.sort_order # ""
         host(x) == TranslatePath(Get(x, "Path"), GoodSettings.media_path_in_jellyfin,
                                  GoodSettings.media_path_on_host)
     IN pure' = [pure EXCEPT !.done = TRUE,
                   !.name = LinkName(pure.idx, width, host(pure.item), use_prefix),
                   !.name2 = LinkName(pure.idx2, width, host(pure.item2), use_prefix)]
  /\ UNCHANGED <<config, today, jfUp, libVer, fs, cache, lock, th, hist>>

\* sync.py 1034-1096: the links of a metadata grouping whose items are
\* resolved, in the directory the wipe has just recreated
LinkItems ==
  /\ pure.op = "links" /\ ~pure.done
  /\ LET g == Group("a", "genre", <<"action">>, pure.sort_order, "", <<>>, NoSeason)
         out == Materialize(pure.input, g, GoodSettings, pure.dry_run,
                            [exists |-> ~pure.dry_run, poster |-> pure.poster /\ ~pure.dry_run,
                             links |-> {}])
     IN pure' = [pure EXCEPT !.done = TRUE, !.result = out.result, !.dir = out.dir]
  /\ UNCHANGED <<config, today, jfUp, libVer, fs, cache, lock, th, hist>>

SpecLinks == InitLinks /\ [][NameLinks \/ LinkItems]_vars

\* --- run_cleanup_broken_symlinks on a directory tree
MaxDepth == 2

\* the names a directory may hold: two at the top of the tree, one below
ChildNames(depth) == IF depth = 1 THEN {"a", "b"} ELSE {"a"}

RECURSIVE PathsOfDepth(_)
PathsOfDepth(d) ==
  IF d = 0 THEN {<<>>}
  ELSE {Append(p, n) : p \in PathsOfDepth(d - 1), n \in ChildNames(d)}

\* the paths below the target root
TreePaths == UNION {PathsOfDepth(d) : d \in 1..MaxDepth}

\* what a path is: nothing, a directory, a regular file, a symlink to an
\* existing file, a symlink to an existing directory, a symlink to nothing
EntryKinds == {"none", "dir", "file", "link_ok", "link_dir", "link_broken"}

Parent(p) == SubSeq(p, 1, Len(p) - 1)

\* the directory trees: an entry exists only inside a real directory
Trees ==
  {t \in [TreePaths -> EntryKinds] :
     \A p \in TreePaths : (Len(p) > 1 /\ t[p] # "none") => t[Parent(p)] = "dir"}

\* os.walk(top) with the loop over files (sync.py 1283-1293): the symlinks
\* removed in the directory dir and below; a symlink to a directory is listed
\* among dirs and never entered, unlink raises OSError on the denied paths
RECURSIVE SweepDir(_, _, _)
SweepDir(tree, dir, denied) ==
  LET children == {p \in TreePaths : Len(p) = Len(dir) + 1 /\ Parent(p) = dir}
      files == {p \in children : tree[p] \in {"file", "link_ok", "link_broken"}}
      dirs == {p \in children : tree[p] \in {"dir", "link_dir"}}
      islink(p) == tree[p] \in {"link_ok", "link_dir", "link_broken"}
      exists(p) == tree[p] \in {"dir", "file", "link_ok", "link_dir"}
      unlinked == {p \in files : islink(p) /\ ~exists(p) /\ p \notin denied}
  IN unlinked \cup UNION {SweepDir(tree, p, denied) : p \in {q \in dirs : ~islink(q)}}

\* RunCleanupBrokenSymlinks, but only the entries of the target root itself
\* are looked at
RunCleanupTopLevelOnly(target_path, root, tree, denied) ==
  IF target_path = "" \/ root # "dir" THEN {}
  ELSE {p \in SweepDir(tree, <<>>, denied) : Len(p) = 1}

\* sync.run_cleanup_broken_symlinks: the set of removed paths; none when the
\* target path is empty or not a directory
RunCleanupBrokenSymlinks(target_path, root, tree, denied) ==
  IF target_path = "" \/ root # "dir" THEN {}
  ELSE SweepDir(tree, <<>>, denied)

InitSweep ==
  /\ PureEnv
  /\ pure \in
       {[op |-> "sweep", target_path |-> tp, root |-> r, tree |-> t, denied |-> d,
         done |-> FALSE, deleted |-> 0, after |-> t] :
          tp \in {"", "/t"}, r \in {"dir"}, t \in Trees, d \in SUBSET TreePaths}
       \cup
       {[op |-> "sweep", target_path |-> "/t", root |-> r,
         tree |-> [p \in TreePaths |-> "none"], denied |-> {},
         done |-> FALSE, deleted |-> 0, after |-> [p \in TreePaths |-> "none"]] :
          r \in {"missing", "file"}}

\* one call of run_cleanup_broken_symlinks
SweepTree ==
  /\ pure.op = "sweep" /\ ~pure.done
  /\ LET removed == RunCleanupBrokenSymlinks(pure.target_path, pure.root, pure.tree, pure.denied)
     IN pure' = [pure EXCEPT !.done = TRUE, !.deleted = Cardinality(removed),
                   !.after = [p \in TreePaths |-> IF p \in removed THEN "none" ELSE pure.tree[p]]]
  /\ UNCHANGED <<config, today, jfUp, libVer, fs, cache, lock, th, hist>>

SpecSweep == InitSweep /\ [][SweepTree]_vars

\* --- _translate_path on path strings
MaxComps == 3

\* a path string: the number of leading slashes and the components between
\* the slashes that follow ("" after a doubled or trailing slash)
PathStr(slashes, comps) == [slashes |-> slashes, comps |-> comps]

EmptyStr == PathStr(0, <<>>)

\* the components of posixpath.normpath: "" and "." are dropped, ".." removes
\* the component before it, stays at the front of a relative path and is
\* dropped at the root
RECURSIVE NormComps(_, _, _)
NormComps(comps, acc, absolute) ==
  IF comps = <<>> THEN acc
  ELSE LET c == Head(comps)
       IN IF c \in {"", "."} THEN NormComps(Tail(comps), acc, absolute)
          ELSE IF c # ".." THEN NormComps(Tail(comps), Append(acc, c), absolute)
          ELSE IF (~absolute /\ acc = <<>>) \/ (acc # <<>> /\ acc[Len(acc)] = "..")
               THEN NormComps(Tail(comps), Append(acc, ".."), absolute)
          ELSE IF acc # <<>>
               THEN NormComps(Tail(comps), SubSeq(acc, 1, Len(acc) - 1), absolute)
          ELSE NormComps(Tail(comps), acc, absolute)

\* posixpath.normpath: exactly two leading slashes are kept, the empty
\* relative path is "."
Normpath(p) ==
  LET comps == NormComps(p.comps, <<>>, p.slashes > 0)
  IN IF p.slashes = 0 /\ comps = <<>> THEN PathStr(0, <<".">>)
     ELSE PathStr(p.slashes, comps)

RECURSIVE CommonPrefix(_, _)
CommonPrefix(a, b) ==
  IF a = <<>> \/ b = <<>> \/ Head(a) # Head(b) THEN <<>>
  ELSE <<Head(a)>> \o CommonPrefix(Tail(a), Tail(b))

\* posixpath.commonpath of two paths that are both absolute or both relative:
\* "" and "." components are left out, the result has one leading slash
Commonpath(a, b) ==
  PathStr(IF a.slashes > 0 THEN 1 ELSE 0,
          CommonPrefix(SelectSeq(a.comps, LAMBDA c : c \notin {"", "."}),
                       SelectSeq(b.comps, LAMBDA c : c \notin {"", "."})))

\* sync._translate_path on path strings; commonpath raises ValueError for an
\* absolute and a relative path, relpath gives the components after the root
TranslatePathStr(jellyfin_path, jellyfin_root, host_root) ==
  IF jellyfin_root # EmptyStr /\ host_root # EmptyStr
  THEN LET normalized_root == Normpath(jellyfin_root)
           normalized_path == Normpath(jellyfin_path)
           rel == SubSeq(normalized_path.comps, Len(normalized_root.comps) + 1,
                         Len(normalized_path.comps))
       IN IF (normalized_path.slashes > 0) # (normalized_root.slashes > 0)
          THEN jellyfin_path
          ELSE IF Commonpath(normalized_path, normalized_root) = normalized_root
          THEN Normpath(PathStr(host_root.slashes, host_root.comps \o rel))
          ELSE jellyfin_path
  ELSE jellyfin_path

\* path strings of up to n components over the given names
PathStrs(names, n) ==
  {PathStr(s, c) : s \in 0..2, c \in {x \in SeqsUpTo(names, n) : x = <<>> \/ x[1] # ""}}

InitTranslate ==
  /\ PureEnv
  /\ pure \in
       {[op |-> "translate", jellyfin_path |-> p, jellyfin_root |-> r,
         host_root |-> h, done |-> FALSE, result |-> p] :
          p \in PathStrs({"jell", "jelly", "movie", ".."}, MaxComps),
          r \in PathStrs({"jell", "..", ".", ""}, MaxComps - 1),
          h \in {EmptyStr, PathStr(1, <<"host">>), PathStr(0, <<"host", "">>)}}

\* one call of _translate_path
Translate ==
  /\ pure.op = "translate" /\ ~pure.done
  /\ pure' = [pure EXCEPT !.done = TRUE,
       !.result = TranslatePathStr(pure.jellyfin_path, pure.jellyfin_root, pure.host_root)]
  /\ UNCHANGED <<config, today, jfUp, libVer, fs, cache, lock, th, hist>>

SpecTranslate == InitTranslate /\ [][Translate]_vars

\* --- the scheduler's jobs next to a configuration that is saved meanwhile
\* a configuration of two metadata groupings, the same with the grouping a
\* removed, and one without a target path
SchedConfig ==
  GoodSettings @@
  [groups |-> << Group("a", "genre", <<"action">>, "ProductionYear", "", <<>>, NoSeason),
                 Group("b", "genre", <<"scifi">>, "", "", <<>>, NoSeason) >>]

SchedConfigSaved == [SchedConfig EXCEPT !.groups = <<SchedConfig.groups[2]>>]

SchedConfigBad == [SchedConfig EXCEPT !.target_path = ""]

\* routes.update_config: save_config replaces the stored configuration; the
\* jobs that already run or wait for the lock are not touched
ConfigSave ==
  /\ config = SchedConfig
  /\ config' = SchedConfigSaved
  /\ UNCHANGED <<today, jfUp, libVer, fs, cache, lock, th, hist, pure>>

\* the steps of a job handler from the lock on, for metadata groupings
JobStep(t) ==
  \/ AcquireLock(t)
  \/ RunBegin(t)
  \/ BeginGroup(t)
  \/ MetaFetch(t)
  \/ RunEnd(t)
  \/ CleanupRun(t)

\* two job handlers are triggered once each
InitSched ==
  /\ today = [month |-> 1, day |-> 1]
  /\ jfUp = TRUE
  /\ libVer = 1
  /\ fs = [root |-> TRUE, dirs |-> [n \in DirNames |-> StaleDir]]
  /\ cache = EmptyCache
  /\ lock = 0
  /\ hist = <<>>
  /\ pure = NoPure
  /\ config \in {SchedConfig, SchedConfigBad}
  /\ th = [t \in Threads |-> [Idle EXCEPT !.budget = IF t <= 2 THEN 1 ELSE 0]]

NextSched ==
  \/ \E t \in Threads : SchedGlobalJob(t) \/ SchedGroupJob(t) \/ SchedCleanupJob(t)
  \/ \E t \in Threads : JobStep(t)
  \/ ConfigSave

SpecSched == InitSched /\ [][NextSched]_vars

\* every thread that can take a step of its handler eventually takes one
SpecSchedFair == SpecSched /\ \A t \in Threads : WF_vars(JobStep(t))

\* --- the external list fetchers' page loops
\* page caps of the fetchers (each module's _MAX_PAGES; TMDb's is a literal)
IMDB_MAX_PAGES == 20
TRAKT_MAX_PAGES == 50
TMDB_MAX_PAGES == 50
LETTERBOXD_MAX_PAGES == 10
\* page requests followed in the model for a loop the code does not cap
MaxRequests == 60

Providers == {"imdb", "trakt", "tmdb", "letterboxd", "mal"}

\* what a remote server can answer to one page request: an HTTP status, whether
\* the page carries entries, whether it announces a further page
Answers ==
  [status : {"ok", "not_found", "error"}, items : BOOLEAN, next : BOOLEAN]

\* imdb.fetch_imdb_list, one pass of the loop: "raised", "returned" or "next"
ImdbPage(page, ans) ==
  IF ans.status # "ok" THEN "raised"
  ELSE IF ~ans.next \/ page >= IMDB_MAX_PAGES THEN "returned"
  ELSE "next"

\* trakt.fetch_trakt_list, one pass of the loop
TraktPage(page, ans) ==
  IF ans.status # "ok" THEN "raised"
  ELSE IF ~ans.items THEN "returned"
  ELSE IF ~ans.next \/ page >= TRAKT_MAX_PAGES THEN "returned"
  ELSE "next"

\* tmdb.fetch_tmdb_list, one pass of the loop
TmdbPage(page, ans) ==
  IF ans.status # "ok" THEN "raised"
  ELSE IF ~ans.items THEN "returned"
  ELSE IF ~ans.next \/ page >= TMDB_MAX_PAGES THEN "returned"
  ELSE "next"

\* letterboxd.fetch_letterboxd_list, one pass of the loop
LetterboxdPage(page, ans) ==
  IF ans.status = "not_found" /\ page > 1 THEN "returned"
  ELSE IF ans.status # "ok" THEN "raised"
  ELSE IF ~ans.items THEN "returned"
  ELSE IF ~ans.next \/ page >= LETTERBOXD_MAX_PAGES THEN "returned"
  ELSE "next"

\* mal.fetch_mal_list, one pass of "while url": the next URL of the answer is
\* followed whenever there is one
MalPage(page, ans) ==
  IF ans.status # "ok" THEN "raised"
  ELSE IF ~ans.next THEN "returned"
  ELSE "next"

FetcherPage(provider, page, ans) ==
  CASE provider = "imdb" -> ImdbPage(page, ans)
    [] provider = "trakt" -> TraktPage(page, ans)
    [] provider = "tmdb" -> TmdbPage(page, ans)
    [] provider = "letterboxd" -> LetterboxdPage(page, ans)
    [] provider = "mal" -> MalPage(page, ans)

InitFetch ==
  /\ PureEnv
  /\ pure \in {[op |-> "fetch", provider |-> p, page |-> 1, requests |-> 0,
                pc |-> "loop", greedy |-> TRUE] : p \in Providers}

\* one page request of a fetcher and the answer of the remote server
FetchPage ==
  /\ pure.op = "fetch" /\ pure.pc = "loop" /\ pure.requests < MaxRequests
  /\ \E ans \in Answers :
       LET out == FetcherPage(pure.provider, pure.page, ans)
       IN pure' = [pure EXCEPT !.requests = @ + 1,
                     !.page = IF out = "next" THEN @ + 1 ELSE @,
                     !.pc = IF out = "next" THEN "loop" ELSE out,
                     !.greedy = @ /\ ans.status = "ok" /\ ans.items /\ ans.next]
  /\ UNCHANGED <<config, today, jfUp, libVer, fs, cache, lock, th, hist>>

SpecFetch == InitFetch /\ [][FetchPage]_vars


\* --- runs one after another while the Jellyfin server goes down and comes back
NextOutage ==
  \/ \E t \in Threads : Handler(t)
  \/ JellyfinToggle

SpecOutage == InitSeq /\ [][NextOutage]_vars


\* --- a dry run and a non-dry run of _process_group over the same items
InitPredict ==
  /\ PureEnv
  /\ pure \in
       {[op |-> "predict", sort_order |-> so, input |-> l, poster |-> p,
         dry_done |-> FALSE, dry_result |-> <<>>,
         real_done |-> FALSE, real_result |-> <<>>, dir |-> NoDir] :
          so \in {"", "SortName"}, l \in NonEmptySeqs(AllItems, MaxLinkItems),
          p \in BOOLEAN}

\* sync.py 1034-1096 with dry_run set: the links count and the preview
DryProcess ==
  /\ pure.op = "predict" /\ ~pure.dry_done
  /\ LET g == Group("a", "genre", <<"action">>, pure.sort_order, "", <<>>, NoSeason)
         out == Materialize(pure.input, g, GoodSettings, TRUE, NoDir)
     IN pure' = [pure EXCEPT !.dry_done = TRUE, !.dry_result = out.result]
  /\ UNCHANGED <<config, today, jfUp, libVer, fs, cache, lock, th, hist>>

\* sync.py 1034-1096 without dry_run, in the directory the wipe has recreated
RealProcess ==
  /\ pure.op = "predict" /\ ~pure.real_done
  /\ LET g == Group("a", "genre", <<"action">>, pure.sort_order, "", <<>>, NoSeason)
         out == Materialize(pure.input, g, GoodSettings, FALSE,
                            [exists |-> TRUE, poster |-> pure.poster, links |-> {}])
     IN pure' = [pure EXCEPT !.real_done = TRUE, !.real_result = out.result,
                             !.dir = out.dir]
  /\ UNCHANGED <<config, today, jfUp, libVer, fs, cache, lock, th, hist>>

SpecPredict == InitPredict /\ [][DryProcess \/ RealProcess]_vars


\* --- where run_sync changes the filesystem for one grouping name
\* os.path.join(base, name): an absolute name replaces the base
PathJoin(base, name) ==
  IF name.slashes > 0 THEN name
  ELSE PathStr(base.slashes, base.comps \o name.comps)

\* the configured target root
TargetBase == PathStr(1, <<"srv", "t">>)

\* grouping names as written in the configuration, stripped
GroupNames ==
  {PathStr(s, c) : s \in 0..1, c \in SeqsUpTo({"a", "..", "."}, MaxDepth)}

\* shutil.rmtree(path): the directory the path leads to loses its entries and
\* is removed; when the path ends in "." or ".." the entries are removed and
\* the final rmdir raises
RmtreeRaises(path) ==
  path.comps # <<>> /\ path.comps[Len(path.comps)] \in {".", ".."}

NoChanges ==
  [wiped |-> {}, emptied |-> {}, created |-> {}, links |-> {}, raised |-> FALSE]

\* rmtree(group_dir) recorded in the changes
Rmtree(changes, group_dir) ==
  IF RmtreeRaises(group_dir)
  THEN [changes EXCEPT !.emptied = {Normpath(group_dir)}, !.raised = TRUE]
  ELSE [changes EXCEPT !.wiped = {Normpath(group_dir)}]

\* the target root exists in a non-dry run (sync.py 1201-1202), and so do the
\* directories above it
RootOrAbove(path) ==
  LET p == Normpath(path)
  IN /\ p.slashes = TargetBase.slashes
     /\ Len(p.comps) <= Len(TargetBase.comps)
     /\ p.comps = SubSeq(TargetBase.comps, 1, Len(p.comps))

\* sync.py 1236-1240: the directory of an out-of-season grouping is removed
GateChanges(name, dry_run, isdir) ==
  LET group_dir == PathJoin(TargetBase, name)
  IN IF ~dry_run /\ name # EmptyStr /\ isdir
     THEN Rmtree(NoChanges, group_dir)
     ELSE NoChanges

\* sync.py 952-969 and 1077-1088: the directory of an in-season grouping is
\* removed and recreated, and the links of its items are created in it
ProcessChanges(name, dry_run, exists, file_names) ==
  LET group_dir == PathJoin(TargetBase, name)
  IN IF dry_run \/ name = EmptyStr THEN NoChanges
     ELSE IF exists /\ RmtreeRaises(group_dir)
     THEN Rmtree(NoChanges, group_dir)
     ELSE [(IF exists THEN Rmtree(NoChanges, group_dir) ELSE NoChanges) EXCEPT
             !.created = {Normpath(group_dir)},
             !.links = {Normpath(PathJoin(group_dir, PathStr(0, <<f>>))) :
                          f \in file_names}]

InitConfine ==
  /\ PureEnv
  /\ pure \in
       {x \in
          {[op |-> "confine", name |-> n, dry_run |-> d, in_season |-> s,
            exists |-> e, file_names |-> f, done |-> FALSE, changes |-> NoChanges] :
             n \in GroupNames, d \in BOOLEAN, s \in BOOLEAN, e \in BOOLEAN,
             f \in {{}, {"x.mkv"}}} :
          RootOrAbove(PathJoin(TargetBase, x.name)) => x.exists}

\* sync.py 1226-1260: run_sync handles one selected grouping
ConfineGroup ==
  /\ pure.op = "confine" /\ ~pure.done
  /\ pure' = [pure EXCEPT !.done = TRUE,
       !.changes = IF pure.in_season
                   THEN ProcessChanges(pure.name, pure.dry_run, pure.exists,
                                       pure.file_names)
                   ELSE GateChanges(pure.name, pure.dry_run, pure.exists)]
  /\ UNCHANGED <<config, today, jfUp, libVer, fs, cache, lock, th, hist>>

SpecConfine == InitConfine /\ [][ConfineGroup]_vars


\* ------------------------------------------------------------- properties
RunKinds == {"global_job", "group_job", "api_sync", "api_preview_all"}

\* C1: no two executions of run_sync overlap in time, whichever of the
\* scheduler jobs and API handlers started them
C1_RunsNeverOverlap == Cardinality({t \in Threads : InRun(t)}) <= 1

\* C2: a run fetches the library from Jellyfin at most once, and every
\* grouping of the run that needs the library is resolved against that one
\* snapshot
C2_OneSnapshotPerRun ==
  \A t \in Threads :
    th[t].kind \in RunKinds =>
      th[t].fetches <= 1 /\ Cardinality(th[t].snaps) <= 1

\* C3: whenever no run is in progress the library cache is empty
C3_CacheEmptyOutsideRuns ==
  (\A t \in Threads : ~InRun(t)) => cache = EmptyCache

\* the positions in the configuration of the groupings a run selects, among
\* the first k groupings
SelectedUpTo(cfg, all, names, k) ==
  SelectSeq([i \in 1..k |-> i],
            LAMBDA i : Selected(cfg.groups[i], all, names))

\* the name a result carries for a grouping
ResultName(g) == IF g.name = "" THEN "(unnamed)" ELSE g.name

HasError(result) == "error" \in DOMAIN result

\* the seasonal gate closes on the grouping today
Gated(g) ==
  g.seasonal_enabled /\ ~IsInSeason(g.seasonal_start, g.seasonal_end, today)

\* the grouping reached the resolution of its items
Resolved(g) == ~Gated(g) /\ g.name # ""

\* the resolution of the grouping failed: a required credential is empty,
\* the external fetch raised, or a fetch from Jellyfin failed
ResolutionFailed(g, cfg, events) ==
  /\ Resolved(g)
  /\ \/ g.source_type \in LIST_SOURCES /\ Credential(cfg, g.source_type) = ""
     \/ "ext_called" \in events
        /\ ExternalFetch(g.source_type, g.source_value).raised
     \/ "lib_failed" \in events
     \/ "meta_failed" \in events

\* the groupings of its configuration a thread inside run_sync is done with
DoneUpTo(t) == IF th[t].pc = "begin" THEN 0 ELSE th[t].idx - 1

C5_ErrorIffResolutionFailed ==
  \A t \in Threads :
    th[t].kind \in RunKinds /\ th[t].pc \in RunPcs \cup {"returned"} =>
      LET cfg == th[t].cfg
          sel == SelectedUpTo(cfg, th[t].all, th[t].names, DoneUpTo(t))
      IN \A j \in 1..Len(th[t].results) :
           HasError(th[t].results[j])
             <=> ResolutionFailed(cfg.groups[sel[j]], cfg, th[t].log[j])

\* a grouping in season has an empty name, or is a recommendations grouping
\* with a TMDb key and no user selected
RejectedBeforeResolution(g, cfg) ==
  /\ ~Gated(g)
  /\ \/ g.name = ""
     \/ /\ g.source_type = "recommendations" /\ g.source_value = <<>>
        /\ Credential(cfg, g.source_type) # ""

\* C5: the result of a processed grouping carries an error exactly when its
\* resolution failed (credential empty, external fetch raised, Jellyfin fetch
\* failed), its name is empty, or it is a recommendations grouping with no
\* user selected; an external list that is fetched and is empty gives
\* links = 0, no error and no library fetch
C5_ErrorIffFailedOrRejected ==
  \A t \in Threads :
    th[t].kind \in RunKinds /\ th[t].pc \in RunPcs \cup {"returned"} =>
      LET cfg == th[t].cfg
          sel == SelectedUpTo(cfg, th[t].all, th[t].names, DoneUpTo(t))
      IN \A j \in 1..Len(th[t].results) :
           LET g == cfg.groups[sel[j]]
               r == th[t].results[j]
               ev == th[t].log[j]
           IN /\ HasError(r) <=> \/ ResolutionFailed(g, cfg, ev)
                                 \/ RejectedBeforeResolution(g, cfg)
              /\ HasError(r) => r.links = 0
              /\ ( /\ "ext_called" \in ev
                   /\ ~ExternalFetch(g.source_type, g.source_value).raised
                   /\ ExternalFetch(g.source_type, g.source_value).ids = <<>> )
                 => ~HasError(r) /\ r.links = 0 /\ "lib_called" \notin ev

\* a run returned with the error of an empty name and, for another
\* grouping, an empty external list that gave no links and no error
C5_Witness ==
  \E t \in Threads :
    /\ th[t].kind \in RunKinds /\ th[t].pc = "returned"
    /\ \E i, j \in 1..Len(th[t].results) :
         /\ HasError(th[t].results[i])
         /\ th[t].results[i].group = "(unnamed)"
         /\ ~HasError(th[t].results[j])
         /\ th[t].results[j].links = 0
         /\ th[t].log[j] = {"ext_called"}

\* C6: a run whose server URL, API key or target path is empty raises before
\* any grouping is processed: the step that raises leaves the filesystem and
\* the library cache as they were, and the run has issued no fetch and has
\* no result
C6_MissingSettingsRaiseFirst ==
  [][ \A t \in Threads :
        ( /\ th[t].kind \in RunKinds /\ th[t].pc = "begin"
          /\ SettingsMissing(th[t].cfg)
          /\ th'[t] # th[t] )
        => /\ th'[t].pc = "raised"
           /\ fs' = fs /\ cache' = cache /\ hist' = hist
           /\ th'[t].results = <<>> /\ th'[t].log = <<>>
           /\ th'[t].fetches = 0 /\ th'[t].events = {} ]_vars

\* a run raised on missing settings while a preview had left a snapshot in
\* the cache and the target root held directories
C6_Witness ==
  \E t \in Threads :
    /\ th[t].kind \in RunKinds /\ th[t].pc = "raised"
    /\ SettingsMissing(th[t].cfg)
    /\ cache # EmptyCache
    /\ fs.root /\ \E n \in DirNames : fs.dirs[n].exists

\* C7: no step of a run with dry_run = true changes the filesystem
C7_DryRunLeavesFilesystem ==
  [][ \A t \in Threads :
        ( /\ th[t].kind \in RunKinds /\ th[t].dry
          /\ th[t].pc \in RunPcs
          /\ th'[t] # th[t] )
        => fs' = fs ]_vars

\* a dry run returned, over a populated target root, with a grouping out of
\* season and a grouping that predicts links
C7_Witness ==
  \E t \in Threads :
    /\ th[t].kind \in RunKinds /\ th[t].dry /\ th[t].pc = "returned"
    /\ \E i, j \in 1..Len(th[t].results) :
         /\ "status" \in DOMAIN th[t].results[i]
         /\ th[t].results[i].group \in DirNames
         /\ th[t].results[j].links > 0
    /\ \A n \in DirNames : fs.dirs[n] = StaleDir

\* the links counts of the results of a run
LinkCounts(results) == [j \in 1..Len(results) |-> results[j].links]

GateRecorded(g, result, events) ==
  /\ result = [group |-> ResultName(g), links |-> 0, status |-> "out_of_season"]
  /\ events = {}

\* the positions of the selected groupings of a finished run
SelectedOf(h) == SelectedUpTo(h.cfg, h.all, h.names, Len(h.cfg.groups))

DayOfYear(date) == date.month * 100 + date.day

\* C10: _is_in_season is a half-open window with wraparound: with start and
\* end both MM-DD strings the result is true exactly when start <= end and
\* start <= now < end, or start > end and (now >= start or now < end), in
\* calendar order; now = end is never in season; a start or an end that is
\* not a string gives true
C10_HalfOpenWindowWithWraparound ==
  (pure.op = "season" /\ pure.done) =>
    IF ~pure.start.isDate \/ ~pure.end.isDate THEN pure.result = TRUE
    ELSE LET s == DayOfYear(pure.start.date)
             e == DayOfYear(pure.end.date)
             now == DayOfYear(today)
         IN /\ pure.result = IF s <= e THEN s <= now /\ now < e
                             ELSE now >= s \/ now < e
            /\ now = e => pure.result = FALSE

\* _is_in_season was called on the end date of a window that wraps around
\* the end of the year
C10_Witness ==
  /\ pure.op = "season" /\ pure.done
  /\ pure.start.isDate /\ pure.end.isDate
  /\ DayOfYear(pure.start.date) > DayOfYear(pure.end.date)
  /\ today = pure.end.date
  /\ pure.result = FALSE

\* the condition of a rule on an item: the item has the genre the rule names;
\* a rule with an empty type or value has the condition false
Cond(item, rule) ==
  rule.type = "genre" /\ rule.value # "" /\ Normalize(rule.value) \in item.Genres

\* the value of the first k rules on an item, combined strictly left to right
RECURSIVE Chain(_, _, _)
Chain(item, rules, k) ==
  LET c == Cond(item, rules[k])
      op == rules[k].operator
  IN IF k = 1
     THEN IF op \in {"NOT", "AND NOT", "OR NOT"} THEN ~c ELSE c
     ELSE LET r == Chain(item, rules, k - 1)
          IN CASE op = "AND" -> r /\ c
               [] op = "OR" -> r \/ c
               [] op \in {"AND NOT", "NOT"} -> r /\ ~c
               [] op = "OR NOT" -> r \/ ~c

\* C11: _eval_item is an invert-seed left fold with no precedence: its
\* result is the condition of the first rule (negated when its operator ends
\* in NOT) combined with the later rules strictly left to right; 'A OR B AND
\* C' is (A OR B) AND C, and rules with only AND operators give the
\* conjunction of all conditions
C11_InvertSeedLeftFold ==
  (pure.op = "eval" /\ pure.done) =>
    LET rules == pure.rules
        item == pure.item
        n == Len(rules)
    IN /\ pure.result = Chain(item, rules, n)
       /\ ( n = 3 /\ rules[1].operator = "AND" /\ rules[2].operator = "OR"
            /\ rules[3].operator = "AND" )
          => pure.result = ( (Cond(item, rules[1]) \/ Cond(item, rules[2]))
                             /\ Cond(item, rules[3]) )
       /\ (\A k \in 1..n : rules[k].operator = "AND")
          => pure.result = (\A k \in 1..n : Cond(item, rules[k]))

\* 'A OR B AND C' was evaluated on an item that has A and lacks C
C11_Witness ==
  /\ pure.op = "eval" /\ pure.done /\ Len(pure.rules) = 3
  /\ pure.rules[1].operator = "AND" /\ pure.rules[2].operator = "OR"
  /\ pure.rules[3].operator = "AND"
  /\ Cond(pure.item, pure.rules[1]) /\ ~Cond(pure.item, pure.rules[3])
  /\ pure.result = FALSE

\* C14: a rule with an empty value never matches: in
\* _fetch_items_for_complex_group it contributes the condition false at its
\* position, so the items resolved for rules that start with an AND rule are
\* the library items on which the fold over all the rules is true
C14_EmptyRuleContributesFalse ==
  (pure.op = "complex" /\ pure.done /\ pure.rules[1].operator = "AND") =>
    pure.items = SelectSeq(pure.library,
                           LAMBDA i : Chain(i, pure.rules, Len(pure.rules)))

GenreWords == {"action", "scifi"}

\* C12: the query "NOT Y" taken through the dispatch, parse_complex_query
\* and evaluation resolves to exactly the library items that do not have Y
C12_LeadingNotInverts ==
  ( /\ pure.op = "resolve" /\ pure.done
    /\ pure.g.source_type = "genre"
    /\ Len(pure.g.source_value) = 2
    /\ pure.g.source_value[1] = "NOT"
    /\ pure.g.source_value[2] \in GenreWords )
  => pure.items = SelectSeq(pure.library,
                            LAMBDA i : pure.g.source_value[2] \notin i.Genres)

\* the words are a boolean expression of one term or of two terms
IsExpression(words) ==
  \/ Len(words) = 1 /\ words[1] \in GenreWords
  \/ /\ Len(words) = 3 /\ words[2] \in {"AND", "OR"}
     /\ words[1] \in GenreWords /\ words[3] \in GenreWords

\* the expression is true of the item
ExpressionTrue(item, words) ==
  IF Len(words) = 1 THEN words[1] \in item.Genres
  ELSE IF words[2] = "AND"
  THEN words[1] \in item.Genres /\ words[3] \in item.Genres
  ELSE words[1] \in item.Genres \/ words[3] \in item.Genres

\* C13: a grouping of source_type "complex" whose expression is its
\* source_value string resolves to exactly the library items on which the
\* expression is true
C13_ComplexStringIsEvaluated ==
  ( /\ pure.op = "resolve" /\ pure.done
    /\ pure.g.source_type = "complex"
    /\ IsExpression(pure.g.source_value) )
  => pure.items = SelectSeq(pure.library,
                            LAMBDA i : ExpressionTrue(i, pure.g.source_value))

\* an ID as the provider compares it
ComparedId(provider_key, id) == IF provider_key = "Imdb" THEN Lower(id) ELSE id

\* the positions of the snapshot items that carry the ID for the provider
HitsOf(snapshot, provider_key, eid) ==
  {j \in DOMAIN snapshot :
     /\ provider_key \in DOMAIN snapshot[j].ProviderIds
     /\ ComparedId(provider_key, snapshot[j].ProviderIds[provider_key])
          = ComparedId(provider_key, eid)}

\* for every ID of the list in turn, the item it matches (the last of the
\* snapshot that carries it), nothing for an ID that matches no item
RECURSIVE InListOrder(_, _, _)
InListOrder(ids, snapshot, provider_key) ==
  IF ids = <<>> THEN <<>>
  ELSE LET hits == HitsOf(snapshot, provider_key, Head(ids))
       IN (IF hits = {} THEN <<>>
           ELSE <<snapshot[CHOOSE j \in hits : \A k \in hits : k <= j]>>)
          \o InListOrder(Tail(ids), snapshot, provider_key)

PassesWatchState(item, watch_state) ==
  CASE watch_state = "unwatched" -> ~item.Played
    [] watch_state = "watched" -> item.Played
    [] OTHER -> TRUE

\* C15: in list-order mode _match_jellyfin_items_by_provider returns the
\* items matched by the IDs in the order of the ID list: unmatched IDs are
\* skipped, matched items are not reordered and nothing else appears (the
\* watch-state filter, when one is given, only removes items)
C15_ListOrderIsKept ==
  (pure.op = "match" /\ pure.done) =>
    pure.items =
      SelectSeq(InListOrder(pure.external_ids, pure.raw_items, pure.provider_key),
                LAMBDA i : PassesWatchState(i, pure.watch_state))

\* a list whose IDs match two items in the reverse of their snapshot order,
\* with an unmatched ID, was resolved without a watch state
C15_Witness ==
  /\ pure.op = "match" /\ pure.done /\ pure.watch_state = ""
  /\ pure.provider_key = "Imdb"
  /\ pure.external_ids = << <<"t", "t", "2">>, <<"t", "t", "9">>, <<"T", "T", "1">> >>
  /\ pure.raw_items = Libraries[1]
  /\ pure.items = <<ItemB, ItemA>>

\* C16: the list the Letterboxd resolver returns holds each catalog item (by
\* Id) at most once, in list-order mode and in set mode
C16_LetterboxdNoDuplicates ==
  (pure.op = "letterboxd" /\ pure.done) =>
    \A i, j \in DOMAIN pure.items :
      i # j => pure.items[i].Id # pure.items[j].Id

\* the primary sort field of the sort at hand
SortField == SORT_MAP[pure.sort_order].key

\* x's value of the sort field is not below y's, by the type of the field
FieldGe(x, y) ==
  IF SortField \in NumericFields THEN x[SortField] >= y[SortField]
  ELSE StrLe(y[SortField], x[SortField])

\* the result holds exactly the items of the input, each once
IsPermutation(result, input) ==
  /\ Len(result) = Len(input)
  /\ \A i \in DOMAIN input : Cardinality({k \in DOMAIN result : result[k] = input[i]}) = 1

\* C17: for every key of SORT_MAP and every item list whose sort field is
\* missing or a present value of one type (0 included), _sort_items_in_memory
\* returns a permutation of the input in which every item with the field
\* precedes every item without it and the items with the field are ordered by
\* its value in the table's direction
C17_MissingLastBothDirections ==
  (pure.op = "sort" /\ pure.done) =>
     /\ ~pure.raised
     /\ IsPermutation(pure.items, pure.input)
     /\ \A i, j \in DOMAIN pure.items :
          (HasKey(pure.items[j], SortField) /\ ~HasKey(pure.items[i], SortField)) => j < i
     /\ \A i, j \in DOMAIN pure.items :
          (i < j /\ HasKey(pure.items[i], SortField) /\ HasKey(pure.items[j], SortField))
            => IF SORT_MAP[pure.sort_order].reverse
               THEN FieldGe(pure.items[i], pure.items[j])
               ELSE FieldGe(pure.items[j], pure.items[i])

\* two items have the same value of the sort field, or both lack it
SameFieldValue(x, y) ==
  IF HasKey(x, SortField) /\ HasKey(y, SortField) THEN x[SortField] = y[SortField]
  ELSE ~HasKey(x, SortField) /\ ~HasKey(y, SortField)

\* position of the item with the given Id in a list
PositionOf(id, items) == CHOOSE k \in DOMAIN items : items[k].Id = id

\* C18: _sort_items_in_memory is stable on the primary component alone: items
\* with equal primary field value, and items that all lack the field, keep
\* their relative input order in ascending and descending sorts, whatever
\* their SortName
C18_StableOnPrimaryKey ==
  (pure.op = "sort" /\ pure.done) =>
     /\ ~pure.raised
     /\ \A i, j \in DOMAIN pure.input :
          (i < j /\ SameFieldValue(pure.input[i], pure.input[j]))
            => PositionOf(pure.input[i].Id, pure.items) < PositionOf(pure.input[j].Id, pure.items)

\* outside the TypeError the sort is a stable sort on the primary field
SortedWhenReturned ==
  (pure.op = "sort" /\ pure.done /\ ~pure.raised) =>
     /\ IsPermutation(pure.items, pure.input)
     /\ \A i, j \in DOMAIN pure.items :
          (HasKey(pure.items[j], SortField) /\ ~HasKey(pure.items[i], SortField)) => j < i
     /\ \A i, j \in DOMAIN pure.items :
          (i < j /\ HasKey(pure.items[i], SortField) /\ HasKey(pure.items[j], SortField))
            => IF SORT_MAP[pure.sort_order].reverse
               THEN FieldGe(pure.items[i], pure.items[j])
               ELSE FieldGe(pure.items[j], pure.items[i])
     /\ \A i, j \in DOMAIN pure.input :
          (i < j /\ SameFieldValue(pure.input[i], pure.input[j]))
            => PositionOf(pure.input[i].Id, pure.items) < PositionOf(pure.input[j].Id, pure.items)

\* number of decimal digits of n
NumDigits(n) == CHOOSE k \in 1..(MaxDigits + 1) : n < 10^k /\ (k = 1 \/ n >= 10^(k - 1))

\* the number written by a sequence of digit characters
RECURSIVE DigitsValue(_)
DigitsValue(s) ==
  IF s = <<>> THEN 0
  ELSE 10 * DigitsValue(SubSeq(s, 1, Len(s) - 1)) + (CharOrd(s[Len(s)]) - 48)

\* name is idx zero-padded to the width of the grouping, ' - ', the base name
IsNumberedName(name, idx, count, item) ==
  LET w == Max(4, NumDigits(count))
  IN /\ Len(name) = w + 2
     /\ \A k \in 1..w : name[k] \in {"0", "1", "2", "3", "4", "5", "6", "7", "8", "9"}
     /\ DigitsValue(SubSeq(name, 1, w)) = idx
     /\ name[w + 1] = " - "
     /\ name[w + 2] = item.Path[Len(item.Path)]

\* C19: with a non-empty sort_order the link of the item at position idx is
\* named idx zero-padded to width max(4, digits of the item count), ' - ' and
\* the base name of the translated path, so the names of two positions differ
\* and compare as the positions do; with an empty sort_order the name is the
\* bare base name
C19_LinkNaming ==
  (pure.op = "name" /\ pure.done) =>
     IF pure.sort_order # ""
     THEN /\ IsNumberedName(pure.name, pure.idx, pure.count, pure.item)
          /\ IsNumberedName(pure.name2, pure.idx2, pure.count, pure.item2)
          /\ (pure.idx # pure.idx2) => (pure.name # pure.name2)
          /\ (pure.idx < pure.idx2) => StrLt(pure.name, pure.name2)
     ELSE /\ pure.name = <<pure.item.Path[Len(pure.item.Path)]>>
          /\ pure.name2 = <<pure.item2.Path[Len(pure.item2.Path)]>>

\* two items with one base name at the last position of MaxDigits - 1 digits
\* and the first of MaxDigits digits, in a list that needs MaxDigits digits
C19_Witness ==
  /\ pure.op = "name" /\ pure.done /\ pure.sort_order # ""
  /\ pure.count = 10^(MaxDigits - 1) + 1
  /\ pure.idx = 10^(MaxDigits - 1) - 1 /\ pure.idx2 = 10^(MaxDigits - 1)
  /\ pure.item = ItemB /\ pure.item2 = ItemA
  /\ Len(pure.name) = MaxDigits + 2 /\ pure.name[1] = "0"

\* the file on the host of the item at position i of the linked list
HostPathAt(i) ==
  IF Get(pure.input[i], "Path") = <<>> THEN <<>>
  ELSE IF Head(pure.input[i].Path) = "jf" THEN <<"host">> \o Tail(pure.input[i].Path)
  ELSE pure.input[i].Path

\* the item at position i has a path and its file is on the host
HasHostFile(i) ==
  /\ Get(pure.input[i], "Path") # <<>>
  /\ HostPathAt(i) \in MediaFiles

\* creating the symlink of the item at position i meets a name that an earlier
\* item of the list has taken (only without numbered names)
NameTakenBefore(i) ==
  /\ pure.sort_order = ""
  /\ \E k \in 1..(i - 1) : HasHostFile(k) /\ Basename(HostPathAt(k)) = Basename(HostPathAt(i))

\* the items whose symlink is created: they have a file on the host and a
\* name that is still free
CreatedPositions == {i \in DOMAIN pure.input : HasHostFile(i) /\ ~NameTakenBefore(i)}

\* C20: an item without a path, with a translated path that does not exist,
\* or whose symlink cannot be created is skipped: every other item of the
\* grouping still gets its symlink, the result carries no error, and links is
\* the number of symlinks created
C20_ItemFailureNeverAborts ==
  (pure.op = "links" /\ pure.done /\ ~pure.dry_run) =>
     /\ ~HasKey(pure.result, "error")
     /\ \A i \in CreatedPositions :
          \E l \in pure.dir.links : l.target = HostPathAt(i) /\ Basename(l.name) = Basename(HostPathAt(i))
     /\ \A l \in pure.dir.links : \E i \in CreatedPositions : l.target = HostPathAt(i)
     /\ pure.result.links = Cardinality(pure.dir.links)
     /\ pure.result.links = Cardinality(CreatedPositions)

\* an item without a path, an item whose file is gone and an item whose name
\* is taken, each followed by an item that is linked
C20_Witness ==
  /\ pure.op = "links" /\ pure.done /\ ~pure.dry_run /\ pure.sort_order = ""
  /\ \E i, j \in DOMAIN pure.input :
       /\ i < j /\ j \in CreatedPositions
       /\ HasHostFile(i) /\ NameTakenBefore(i)
  /\ \E i, j \in DOMAIN pure.input :
       i < j /\ j \in CreatedPositions /\ ~HasHostFile(i)
  /\ pure.result.links = 2 /\ Len(pure.input) = MaxLinkItems

\* the target root of the sweep is an existing directory
SweepRootValid == pure.target_path # "" /\ pure.root = "dir"

PlainComps(c) == \A i \in DOMAIN c : c[i] \notin {"", ".", ".."}

\* the path is the root, a slash and a relative path of plain names
IsRootSlashRel ==
  /\ pure.jellyfin_path.slashes = pure.jellyfin_root.slashes
  /\ Len(pure.jellyfin_path.comps) > Len(pure.jellyfin_root.comps)
  /\ SubSeq(pure.jellyfin_path.comps, 1, Len(pure.jellyfin_root.comps)) = pure.jellyfin_root.comps
  /\ PlainComps(SubSeq(pure.jellyfin_path.comps, Len(pure.jellyfin_root.comps) + 1,
                       Len(pure.jellyfin_path.comps)))

\* the path lies under the root by whole components, once both are normalised
UnderRootByComponents ==
  LET r == Normpath(pure.jellyfin_root)
      p == Normpath(pure.jellyfin_path)
  IN /\ (r.slashes > 0) = (p.slashes > 0)
     /\ Len(p.comps) >= Len(r.comps)
     /\ SubSeq(p.comps, 1, Len(r.comps)) = r.comps

\* C22: with both roots configured every path root/rel under an absolute
\* root is rewritten to host_root/rel; a path that is not under the root by whole components, and
\* every path when a root is empty, is returned unchanged
C22_TranslateByWholeComponents ==
  (pure.op = "translate" /\ pure.done) =>
     IF pure.jellyfin_root = EmptyStr \/ pure.host_root = EmptyStr
     THEN pure.result = pure.jellyfin_path
     ELSE /\ (IsRootSlashRel /\ pure.jellyfin_root.slashes > 0) =>
               /\ pure.result.slashes = pure.host_root.slashes
               /\ pure.result.comps =
                    SelectSeq(pure.host_root.comps, LAMBDA c : c # "")
                    \o SubSeq(pure.jellyfin_path.comps, Len(pure.jellyfin_root.comps) + 1,
                              Len(pure.jellyfin_path.comps))
          /\ ~UnderRootByComponents => pure.result = pure.jellyfin_path

\* the names of the groupings of a configuration that are in S, in
\* configuration order
NamesIn(cfg, S) ==
  LET names == [i \in 1..Len(cfg.groups) |-> cfg.groups[i].name]
  IN SelectSeq(names, LAMBDA n : n \in S)

C24_RunUsesStoredConfig ==
  [][ \A t \in Threads :
        (th[t].pc = "wait_lock" /\ th'[t].pc # "wait_lock") => th'[t].cfg = config ]_vars

\* the pc values of a job handler that is inside "with sync_lock"
LockedPcs == RunPcs \cup {"cleanup"}

\* C30: the lock is free of a job handler as soon as the handler has ended,
\* by return or by the ValueError of run_sync; at most one job handler is
\* inside the lock; while a job waits, the lock is free or its holder can
\* take a step; and every job that waits for the lock eventually enters it
C30_JobsQueueAndProgress ==
  /\ [](\A t \in Threads :
          /\ (th[t].kind \in JobKinds /\ th[t].pc \in {"returned", "raised", "done"}) => lock # t
          /\ (th[t].kind \in JobKinds /\ th[t].pc \in LockedPcs) => lock = t
          /\ th[t].pc = "wait_lock"
               => (lock = 0 \/ (lock \in Threads /\ th[lock].pc \in LockedPcs)))
  /\ \A t \in Threads : (th[t].pc = "wait_lock") ~> (th[t].pc \in LockedPcs)

\* a job handler has ended by the ValueError of run_sync and the other job,
\* which was triggered meanwhile, is inside the lock
C30_Witness ==
  \E t, u \in Threads :
    /\ t # u
    /\ th[u].kind \in JobKinds /\ th[u].pc = "raised"
    /\ th[t].kind \in JobKinds /\ th[t].pc \in LockedPcs /\ lock = t

\* the largest page cap any fetcher declares
LargestPageCap == 50

\* C25: every provider fetcher issues at most a fixed number of page requests,
\* whatever the server answers and in particular when every response
\* announces a further page, and then returns or raises.
C25_FetchWithinPaginationCap ==
  pure.op = "fetch" => pure.requests <= LargestPageCap

\* the four capped fetchers stop at their own cap
C25_CappedFetchersStop ==
  pure.op = "fetch" =>
    /\ pure.provider = "imdb" => pure.requests <= IMDB_MAX_PAGES
    /\ pure.provider = "trakt" => pure.requests <= TRAKT_MAX_PAGES
    /\ pure.provider = "tmdb" => pure.requests <= TMDB_MAX_PAGES
    /\ pure.provider = "letterboxd" => pure.requests <= LETTERBOXD_MAX_PAGES
    /\ (pure.provider # "mal" /\ pure.greedy /\ pure.requests >= LargestPageCap)
         => pure.pc = "returned"

\* the item list a thread that is resolving a grouping is about to obtain
CurrentItems(t) ==
  LET g == CurGroup(t)
  IN CASE th[t].pc = "lib_check" ->
            ResolveAgainst(Libraries[cache[CacheKey(th[t].cfg)]], g, th[t].ext)
       [] th[t].pc = "lib_fetch" -> ResolveAgainst(Libraries[libVer], g, th[t].ext)
       [] th[t].pc = "meta_fetch" ->
            MetadataQuery(Libraries[libVer], g.source_type, g.source_value,
                          g.watch_state)
       [] OTHER -> <<>>

\* the host paths of the items of a list whose file exists on the host
ExistingTargets(items, cfg) ==
  {p \in {TranslatePath(Get(items[i], "Path"), cfg.media_path_in_jellyfin,
                        cfg.media_path_on_host) :
            i \in {j \in DOMAIN items : Get(items[j], "Path") # <<>>}} :
     p \in MediaFiles}

\* the step of a non-dry run that records a result without error for the
\* grouping it has resolved
RecordsSuccess(t) ==
  /\ th[t].kind \in RunKinds /\ ~th[t].dry
  /\ th[t].pc \in {"ext_fetch", "lib_check", "lib_fetch", "meta_fetch"}
  /\ th'[t].pc = "loop"
  /\ ~HasError(th'[t].results[Len(th'[t].results)])

\* C26: when a non-dry run has processed an in-season grouping without error,
\* the grouping directory exists and holds exactly `links` symlinks, each
\* pointing to the translated path of an item of the current item list whose
\* file exists on the host; nothing an earlier run left is among them.
C26_RebuildPostcondition ==
  [][ \A t \in Threads :
        RecordsSuccess(t) =>
          LET g == CurGroup(t)
              dir == fs'.dirs[g.name]
              result == th'[t].results[Len(th'[t].results)]
          IN /\ dir.exists
             /\ Cardinality(dir.links) = result.links
             /\ Cardinality({l.name : l \in dir.links}) = result.links
             /\ \A l \in dir.links :
                  l.target \in ExistingTargets(CurrentItems(t), th[t].cfg) ]_vars

\* a non-dry run that started on directories an earlier run had filled has
\* rebuilt grouping a with two numbered links and none of the earlier ones
C26_Witness ==
  \E t \in Threads :
    /\ th[t].kind \in RunKinds /\ ~th[t].dry /\ th[t].pc = "loop"
    /\ th[t].results # <<>>
    /\ LET result == th[t].results[Len(th[t].results)]
       IN /\ result.group = "a" /\ ~HasError(result) /\ result.links = 2
          /\ Cardinality(fs.dirs["a"].links) = 2
          /\ \A l \in StaleDir.links : l \notin fs.dirs["a"].links
    /\ fs.dirs["b"] = StaleDir

\* the results a finished run recorded for the grouping named n
ResultsFor(h, n) == {j \in 1..Len(h.results) : h.results[j].group = n}

\* C27: when the resolution of a grouping ends in an error result in a non-dry
\* run, the symlinks an earlier successful run created in the directory of
\* that grouping are still present after the run.
C27_EarlierLinksSurviveError ==
  \A i \in 1..(Len(hist) - 1) : \A n \in DirNames :
    ( /\ ~hist[i].dry /\ ~hist[i + 1].dry
      /\ Cardinality({j \in 1..Len(hist[i].cfg.groups) :
                        hist[i].cfg.groups[j].name = n}) = 1
      /\ ResultsFor(hist[i], n) # {} /\ ResultsFor(hist[i + 1], n) # {}
      /\ \A j \in ResultsFor(hist[i], n) :
           ~HasError(hist[i].results[j]) /\ hist[i].results[j].links > 0
      /\ \A j \in ResultsFor(hist[i + 1], n) : HasError(hist[i + 1].results[j]) )
    => hist[i].dirs[n].links \subseteq hist[i + 1].dirs[n].links

Min(a, b) == IF a <= b THEN a ELSE b

\* C28: for the same items and media files, the links count and the would-be
\* file names a dry run reports equal the number and the names of the symlinks
\* a non-dry run creates, also when two items have the same base name and no
\* sort order is set; the preview has min(100, links) entries.
C28_DryRunPredictsRealRun ==
  (pure.op = "predict" /\ pure.dry_done /\ pure.real_done) =>
     /\ pure.dry_result.links = pure.real_result.links
     /\ pure.dry_result.links = Cardinality(pure.dir.links)
     /\ Range(pure.dry_result.items) = {l.name : l \in pure.dir.links}
     /\ Len(pure.dry_result.items) = Min(PREVIEW_CAP, pure.dry_result.links)

\* the dry run agrees with the real run whenever the would-be names are distinct
C28_AgreeOnDistinctNames ==
  (pure.op = "predict" /\ pure.dry_done /\ pure.real_done
   /\ pure.input # <<>>
   /\ Cardinality(Range(pure.dry_result.items) \cup
                  (IF pure.poster THEN {<<"poster.jpg">>} ELSE {}))
        = Len(pure.dry_result.items) + (IF pure.poster THEN 1 ELSE 0)) =>
     /\ pure.dry_result.links = pure.real_result.links
     /\ Range(pure.dry_result.items) = {l.name : l \in pure.dir.links}

\* the path is a strict descendant of the root
StrictlyBelow(p, root) ==
  /\ p.slashes = root.slashes
  /\ Len(p.comps) > Len(root.comps)
  /\ SubSeq(p.comps, 1, Len(root.comps)) = root.comps
  /\ \A i \in DOMAIN p.comps : p.comps[i] \notin {"..", "."}

\* C29: for every grouping name, also "..", names with path separators and
\* absolute paths, every directory run_sync deletes or creates and every
\* symlink it creates is a strict descendant of the target root, and the
\* target root itself is never deleted.
C29_ChangesConfinedBelowRoot ==
  (pure.op = "confine" /\ pure.done) =>
     /\ \A p \in pure.changes.wiped \cup pure.changes.created \cup pure.changes.links :
          StrictlyBelow(p, TargetBase)
     /\ \A p \in pure.changes.emptied :
          p = TargetBase \/ StrictlyBelow(p, TargetBase)

\* a name made of plain components keeps every change below the root
C29_PlainNamesConfined ==
  (pure.op = "confine" /\ pure.done /\ pure.name.slashes = 0
   /\ \A i \in DOMAIN pure.name.comps : pure.name.comps[i] = "a") =>
     /\ \A p \in pure.changes.wiped \cup pure.changes.created \cup pure.changes.links :
          StrictlyBelow(p, TargetBase)
     /\ pure.changes.emptied = {}

====
